---- MODULE Spec2Model ----
(***************************************************************************)
(* A model of the proxy-web gateway worker (src/_worker.js).               *)
(*                                                                         *)
(* JavaScript strings are modelled as sequences of one-character strings,  *)
(* so that split, replace, includes, toLowerCase and the regular           *)
(* expression tests of the source are computed, not assumed.               *)
(* Error messages and error names are never taken apart by the code and    *)
(* are modelled as atomic strings.                                         *)
(***************************************************************************)
EXTENDS Integers, Sequences, FiniteSets, TLC

(***************************************************************************)
(* Bounds of the model.                                                    *)
(***************************************************************************)
\* longest first label of an inbound hostname that is enumerated exhaustively
MaxLabelLen == 6

\* largest number of headers an inbound request carries
MaxHeaders == 2

\* longest domain name fed to the codec in the codec specification
MaxDomainLen == 6

\* the longest submitted url that is enumerated
MaxUrlLen == 5

\* invocations of handleRequest in progress at the same time
MaxHandlers == 2

\* the longest prefix put in front of a host in the URLs handed to the rewriter
MaxPrefixLen == 2

(***************************************************************************)
(* Characters and the JavaScript string primitives the worker uses.        *)
(***************************************************************************)
LowerSeq ==
  <<"a", "b", "c", "d", "e", "f", "g", "h", "i", "j", "k", "l", "m",
    "n", "o", "p", "q", "r", "s", "t", "u", "v", "w", "x", "y", "z">>

UpperSeq ==
  <<"A", "B", "C", "D", "E", "F", "G", "H", "I", "J", "K", "L", "M",
    "N", "O", "P", "Q", "R", "S", "T", "U", "V", "W", "X", "Y", "Z">>

LowerAlpha == {LowerSeq[i] : i \in 1..26}

UpperAlpha == {UpperSeq[i] : i \in 1..26}

Digits == {"0", "1", "2", "3", "4", "5", "6", "7", "8", "9"}

\* the character class [a-zA-Z0-9-]
AlnumHyphen == LowerAlpha \cup UpperAlpha \cup Digits \cup {"-"}

\* the character class [a-zA-Z0-9.-]
AlnumDotHyphen == AlnumHyphen \cup {"."}

\* JavaScript null, a value no string of characters is equal to
NULL == <<"null">>

toLowerChar(c) ==
  IF c \in UpperAlpha
    THEN LowerSeq[CHOOSE i \in 1..26 : UpperSeq[i] = c]
    ELSE c

\* String.prototype.toLowerCase
toLowerCase(s) == [i \in 1..Len(s) |-> toLowerChar(s[i])]

\* String.prototype.startsWith
startsWith(s, p) == Len(p) <= Len(s) /\ SubSeq(s, 1, Len(p)) = p

\* String.prototype.endsWith
endsWith(s, p) ==
  Len(p) <= Len(s) /\ SubSeq(s, Len(s) - Len(p) + 1, Len(s)) = p

\* String.prototype.includes
includes(s, p) ==
  \E i \in 1..(Len(s) - Len(p) + 1) : SubSeq(s, i, i + Len(p) - 1) = p

\* String.prototype.trim (the only white space of the model is the blank)
RECURSIVE trim(_)
trim(s) ==
  IF s = <<>> THEN s
  ELSE IF Head(s) = " " THEN trim(Tail(s))
  ELSE IF s[Len(s)] = " " THEN trim(SubSeq(s, 1, Len(s) - 1))
  ELSE s

\* String.prototype.split with a non-empty string separator: the matches are
\* taken leftmost first and do not overlap; cur is the part being collected
RECURSIVE splitFrom(_, _, _)
splitFrom(rest, sep, cur) ==
  IF rest = <<>> THEN <<cur>>
  ELSE IF startsWith(rest, sep)
    THEN <<cur>> \o splitFrom(SubSeq(rest, Len(sep) + 1, Len(rest)), sep, <<>>)
    ELSE splitFrom(Tail(rest), sep, Append(cur, Head(rest)))

split(s, sep) == splitFrom(s, sep, <<>>)

\* Array.prototype.join
RECURSIVE join(_, _)
join(parts, sep) ==
  IF parts = <<>> THEN <<>>
  ELSE IF Len(parts) = 1 THEN parts[1]
  ELSE parts[1] \o sep \o join(Tail(parts), sep)

\* Array.prototype.slice(1)
slice1(parts) == IF parts = <<>> THEN <<>> ELSE Tail(parts)

\* s.replace(/\./g, to): every dot is replaced
RECURSIVE replaceDots(_, _)
replaceDots(s, to) ==
  IF s = <<>> THEN <<>>
  ELSE IF Head(s) = "." THEN to \o replaceDots(Tail(s), to)
  ELSE <<Head(s)>> \o replaceDots(Tail(s), to)

\* the test /^[a-zA-Z0-9-]+$/
testAlnumHyphen(s) == Len(s) > 0 /\ \A i \in 1..Len(s) : s[i] \in AlnumHyphen

\* the test /^[a-zA-Z0-9.-]+$/
testAlnumDotHyphen(s) ==
  Len(s) > 0 /\ \A i \in 1..Len(s) : s[i] \in AlnumDotHyphen

(***************************************************************************)
(* The subdomain codec.                                                    *)
(***************************************************************************)
Dot == <<".">>

DoubleHyphen == <<"-", "-">>

Hyphen == <<"-">>

isValidSubdomainFormat(subdomain) ==
  IF startsWith(subdomain, Hyphen) \/ endsWith(subdomain, Hyphen) THEN FALSE
  ELSE LET parts == split(subdomain, DoubleHyphen) IN
    IF Len(parts) < 2 THEN FALSE
    ELSE \A i \in 1..Len(parts) :
           /\ Len(parts[i]) > 0
           /\ testAlnumHyphen(parts[i])
           /\ ~startsWith(parts[i], Hyphen)
           /\ ~endsWith(parts[i], Hyphen)

\* extractSubdomain without the check of the double-hyphen format
extractSubdomainUnchecked(hostname) ==
  LET parts == split(hostname, Dot) IN
    IF Len(parts) < 2 THEN NULL
    ELSE IF ~testAlnumHyphen(parts[1]) THEN NULL
    ELSE parts[1]

extractSubdomain(hostname) ==
  LET parts == split(hostname, Dot) IN
    IF Len(parts) < 2 THEN NULL
    ELSE LET subdomain == parts[1] IN
      IF ~testAlnumHyphen(subdomain) THEN NULL
      ELSE IF ~isValidSubdomainFormat(subdomain) THEN NULL
      ELSE subdomain

convertSubdomainToUrl(subdomain) ==
  IF subdomain = NULL \/ subdomain = <<>> THEN NULL
  ELSE LET trimmed == trim(subdomain) IN
    IF ~testAlnumHyphen(trimmed) THEN NULL
    ELSE LET parts == split(trimmed, DoubleHyphen) IN
      IF Len(parts) < 2 THEN NULL
      ELSE IF \E i \in 1..Len(parts) : Len(parts[i]) = 0 THEN NULL
      ELSE join(parts, Dot)

\* convertUrlToSubdomain with a single hyphen for each dot
convertUrlToSubdomainSingleHyphen(hostname) ==
  IF hostname = NULL \/ hostname = <<>> THEN NULL
  ELSE IF ~testAlnumDotHyphen(hostname) THEN NULL
  ELSE replaceDots(hostname, Hyphen)

convertUrlToSubdomain(hostname) ==
  IF hostname = NULL \/ hostname = <<>> THEN NULL
  ELSE IF ~testAlnumDotHyphen(hostname) THEN NULL
  ELSE replaceDots(hostname, DoubleHyphen)

(***************************************************************************)
(* String constants of the source.                                         *)
(***************************************************************************)
GET ==
  <<"G", "E", "T">>

POST ==
  <<"P", "O", "S", "T">>

PUT ==
  <<"P", "U", "T">>

DELETE ==
  <<"D", "E", "L", "E", "T", "E">>

PATCH ==
  <<"P", "A", "T", "C", "H">>

HEAD ==
  <<"H", "E", "A", "D">>

OPTIONS ==
  <<"O", "P", "T", "I", "O", "N", "S">>

TRACE ==
  <<"T", "R", "A", "C", "E">>

CommaSpace ==
  <<",", " ">>

CORS_MAX_AGE ==
  <<"8", "6", "4", "0", "0">>

Star ==
  <<"*">>

CorsAllowHeadersValue ==
  <<"C", "o", "n", "t", "e", "n", "t", "-", "T", "y", "p", "e", ",", " ",
    "A", "u", "t", "h", "o", "r", "i", "z", "a", "t", "i", "o", "n", ",",
    " ", "X", "-", "R", "e", "q", "u", "e", "s", "t", "e", "d", "-", "W",
    "i", "t", "h", ",", " ", "A", "c", "c", "e", "p", "t", ",", " ", "O",
    "r", "i", "g", "i", "n">>

CorsExposeHeadersValue ==
  <<"C", "o", "n", "t", "e", "n", "t", "-", "L", "e", "n", "g", "t", "h",
    ",", " ", "C", "o", "n", "t", "e", "n", "t", "-", "T", "y", "p", "e">>

JsonContentType ==
  <<"a", "p", "p", "l", "i", "c", "a", "t", "i", "o", "n", "/", "j", "s",
    "o", "n", ";", " ", "c", "h", "a", "r", "s", "e", "t", "=", "u", "t",
    "f", "-", "8">>

HtmlUtf8ContentType ==
  <<"t", "e", "x", "t", "/", "h", "t", "m", "l", ";", " ", "c", "h", "a",
    "r", "s", "e", "t", "=", "u", "t", "f", "-", "8">>

DefaultUserAgent ==
  <<"M", "o", "z", "i", "l", "l", "a", "/", "5", ".", "0", " ", "(", "W",
    "i", "n", "d", "o", "w", "s", " ", "N", "T", " ", "1", "0", ".", "0",
    ";", " ", "W", "i", "n", "6", "4", ";", " ", "x", "6", "4", ")", " ",
    "A", "p", "p", "l", "e", "W", "e", "b", "K", "i", "t", "/", "5", "3",
    "7", ".", "3", "6", " ", "(", "K", "H", "T", "M", "L", ",", " ", "l",
    "i", "k", "e", " ", "G", "e", "c", "k", "o", ")", " ", "C", "h", "r",
    "o", "m", "e", "/", "1", "2", "0", ".", "0", ".", "0", ".", "0", " ",
    "S", "a", "f", "a", "r", "i", "/", "5", "3", "7", ".", "3", "6">>

DefaultAccept ==
  <<"t", "e", "x", "t", "/", "h", "t", "m", "l", ",", "a", "p", "p", "l",
    "i", "c", "a", "t", "i", "o", "n", "/", "x", "h", "t", "m", "l", "+",
    "x", "m", "l", ",", "a", "p", "p", "l", "i", "c", "a", "t", "i", "o",
    "n", "/", "x", "m", "l", ";", "q", "=", "0", ".", "9", ",", "i", "m",
    "a", "g", "e", "/", "w", "e", "b", "p", ",", "*", "/", "*", ";", "q",
    "=", "0", ".", "8">>

DefaultAcceptLanguage ==
  <<"e", "n", "-", "U", "S", ",", "e", "n", ";", "q", "=", "0", ".", "5">>

DefaultAcceptEncoding ==
  <<"g", "z", "i", "p", ",", " ", "d", "e", "f", "l", "a", "t", "e", ",",
    " ", "b", "r">>

HostName ==
  <<"H", "o", "s", "t">>

OriginName ==
  <<"O", "r", "i", "g", "i", "n">>

RefererName ==
  <<"R", "e", "f", "e", "r", "e", "r">>

UserAgentName ==
  <<"U", "s", "e", "r", "-", "A", "g", "e", "n", "t">>

AcceptName ==
  <<"A", "c", "c", "e", "p", "t">>

AcceptLanguageName ==
  <<"A", "c", "c", "e", "p", "t", "-", "L", "a", "n", "g", "u", "a", "g",
    "e">>

AcceptEncodingName ==
  <<"A", "c", "c", "e", "p", "t", "-", "E", "n", "c", "o", "d", "i", "n",
    "g">>

LocationName ==
  <<"L", "o", "c", "a", "t", "i", "o", "n">>

ContentTypeName ==
  <<"c", "o", "n", "t", "e", "n", "t", "-", "t", "y", "p", "e">>

AllowOriginName ==
  <<"A", "c", "c", "e", "s", "s", "-", "C", "o", "n", "t", "r", "o", "l",
    "-", "A", "l", "l", "o", "w", "-", "O", "r", "i", "g", "i", "n">>

AllowMethodsName ==
  <<"A", "c", "c", "e", "s", "s", "-", "C", "o", "n", "t", "r", "o", "l",
    "-", "A", "l", "l", "o", "w", "-", "M", "e", "t", "h", "o", "d", "s">>

AllowHeadersName ==
  <<"A", "c", "c", "e", "s", "s", "-", "C", "o", "n", "t", "r", "o", "l",
    "-", "A", "l", "l", "o", "w", "-", "H", "e", "a", "d", "e", "r", "s">>

MaxAgeName ==
  <<"A", "c", "c", "e", "s", "s", "-", "C", "o", "n", "t", "r", "o", "l",
    "-", "M", "a", "x", "-", "A", "g", "e">>

ExposeHeadersName ==
  <<"A", "c", "c", "e", "s", "s", "-", "C", "o", "n", "t", "r", "o", "l",
    "-", "E", "x", "p", "o", "s", "e", "-", "H", "e", "a", "d", "e", "r",
    "s">>

RequestHeadersName ==
  <<"A", "c", "c", "e", "s", "s", "-", "C", "o", "n", "t", "r", "o", "l",
    "-", "R", "e", "q", "u", "e", "s", "t", "-", "H", "e", "a", "d", "e",
    "r", "s">>

RequestMethodName ==
  <<"A", "c", "c", "e", "s", "s", "-", "C", "o", "n", "t", "r", "o", "l",
    "-", "R", "e", "q", "u", "e", "s", "t", "-", "M", "e", "t", "h", "o",
    "d">>

CacheControlName ==
  <<"C", "a", "c", "h", "e", "-", "C", "o", "n", "t", "r", "o", "l">>

XssProtectionName ==
  <<"X", "-", "X", "S", "S", "-", "P", "r", "o", "t", "e", "c", "t", "i",
    "o", "n">>

XContentTypeOptionsName ==
  <<"X", "-", "C", "o", "n", "t", "e", "n", "t", "-", "T", "y", "p", "e",
    "-", "O", "p", "t", "i", "o", "n", "s">>

XFrameOptionsName ==
  <<"X", "-", "F", "r", "a", "m", "e", "-", "O", "p", "t", "i", "o", "n",
    "s">>

ContentTypeCapName ==
  <<"C", "o", "n", "t", "e", "n", "t", "-", "T", "y", "p", "e">>

HttpsScheme ==
  <<"h", "t", "t", "p", "s", ":">>

HttpScheme ==
  <<"h", "t", "t", "p", ":">>

SlashSlash ==
  <<"/", "/">>

Slash ==
  <<"/">>

ProxyLabel ==
  <<"p", "r", "o", "x", "y">>

ProxyDashLabel ==
  <<"p", "r", "o", "x", "y", "-", "-">>

ApiGeneratePath ==
  <<"/", "a", "p", "i", "/", "g", "e", "n", "e", "r", "a", "t", "e">>

headersToRemove ==
  { <<"s", "e", "r", "v", "e", "r">>,
    <<"x", "-", "p", "o", "w", "e", "r", "e", "d", "-", "b", "y">>,
    <<"x", "-", "a", "s", "p", "n", "e", "t", "-", "v", "e", "r", "s", "i", "o", "n">>,
    <<"x", "-", "r", "u", "n", "t", "i", "m", "e">>,
    <<"x", "-", "v", "e", "r", "s", "i", "o", "n">>,
    <<"c", "o", "n", "t", "e", "n", "t", "-", "s", "e", "c", "u", "r", "i", "t", "y", "-", "p", "o", "l", "i", "c", "y">>,
    <<"x", "-", "f", "r", "a", "m", "e", "-", "o", "p", "t", "i", "o", "n", "s">>,
    <<"x", "-", "c", "o", "n", "t", "e", "n", "t", "-", "t", "y", "p", "e", "-", "o", "p", "t", "i", "o", "n", "s">> }


(***************************************************************************)
(* CONFIG.                                                                 *)
(***************************************************************************)
ALLOWED_METHODS == <<GET, POST, PUT, DELETE, PATCH, HEAD, OPTIONS>>

REWRITABLE_CONTENT_TYPES ==
  { <<"t", "e", "x", "t", "/", "h", "t", "m", "l">>,
    <<"t", "e", "x", "t", "/", "c", "s", "s">>,
    <<"t", "e", "x", "t", "/", "j", "a", "v", "a", "s", "c", "r", "i", "p", "t">>,
    <<"a", "p", "p", "l", "i", "c", "a", "t", "i", "o", "n", "/", "j", "a", "v", "a", "s", "c", "r", "i", "p", "t">>,
    <<"a", "p", "p", "l", "i", "c", "a", "t", "i", "o", "n", "/", "x", "-", "j", "a", "v", "a", "s", "c", "r", "i", "p", "t">>,
    <<"a", "p", "p", "l", "i", "c", "a", "t", "i", "o", "n", "/", "j", "s", "o", "n">>,
    <<"t", "e", "x", "t", "/", "x", "m", "l">>,
    <<"a", "p", "p", "l", "i", "c", "a", "t", "i", "o", "n", "/", "x", "m", "l">>,
    <<"a", "p", "p", "l", "i", "c", "a", "t", "i", "o", "n", "/", "x", "h", "t", "m", "l", "+", "x", "m", "l">> }

BLOCKED_HEADERS ==
  { <<"c", "f", "-", "c", "o", "n", "n", "e", "c", "t", "i", "n", "g", "-", "i", "p">>,
    <<"c", "f", "-", "i", "p", "c", "o", "u", "n", "t", "r", "y">>,
    <<"c", "f", "-", "r", "a", "y">>,
    <<"c", "f", "-", "v", "i", "s", "i", "t", "o", "r">>,
    <<"c", "f", "-", "r", "e", "q", "u", "e", "s", "t", "-", "i", "d">>,
    <<"c", "f", "-", "w", "a", "r", "p", "-", "t", "a", "g", "-", "i", "d">>,
    <<"c", "f", "-", "w", "o", "r", "k", "e", "r">>,
    <<"x", "-", "f", "o", "r", "w", "a", "r", "d", "e", "d", "-", "p", "r", "o", "t", "o">>,
    <<"x", "-", "f", "o", "r", "w", "a", "r", "d", "e", "d", "-", "f", "o", "r">>,
    <<"x", "-", "f", "o", "r", "w", "a", "r", "d", "e", "d", "-", "h", "o", "s", "t">>,
    <<"x", "-", "f", "o", "r", "w", "a", "r", "d", "e", "d", "-", "p", "o", "r", "t">>,
    <<"x", "-", "r", "e", "a", "l", "-", "i", "p">>,
    <<"x", "-", "o", "r", "i", "g", "i", "n", "a", "l", "-", "f", "o", "r", "w", "a", "r", "d", "e", "d", "-", "f", "o", "r">>,
    <<"x", "-", "c", "l", "u", "s", "t", "e", "r", "-", "c", "l", "i", "e", "n", "t", "-", "i", "p">>,
    <<"x", "-", "f", "o", "r", "w", "a", "r", "d", "e", "d">>,
    <<"f", "o", "r", "w", "a", "r", "d", "e", "d", "-", "f", "o", "r">>,
    <<"f", "o", "r", "w", "a", "r", "d", "e", "d">>,
    <<"v", "i", "a">>,
    <<"x", "-", "p", "r", "o", "x", "y", "-", "a", "u", "t", "h", "o", "r", "i", "z", "a", "t", "i", "o", "n">>,
    <<"p", "r", "o", "x", "y", "-", "a", "u", "t", "h", "o", "r", "i", "z", "a", "t", "i", "o", "n">>,
    <<"p", "r", "o", "x", "y", "-", "c", "o", "n", "n", "e", "c", "t", "i", "o", "n">>,
    <<"t", "r", "u", "e", "-", "c", "l", "i", "e", "n", "t", "-", "i", "p">>,
    <<"x", "-", "c", "l", "i", "e", "n", "t", "-", "i", "p">>,
    <<"c", "l", "i", "e", "n", "t", "-", "i", "p">>,
    <<"x", "-", "o", "r", "i", "g", "i", "n", "a", "t", "i", "n", "g", "-", "i", "p">>,
    <<"x", "-", "r", "e", "m", "o", "t", "e", "-", "i", "p">>,
    <<"x", "-", "r", "e", "m", "o", "t", "e", "-", "a", "d", "d", "r">>,
    <<"r", "e", "m", "o", "t", "e", "-", "a", "d", "d", "r">> }

\* a method check that lets every method through
methodAllowedAny(method) == method = method

\* Array.prototype.includes on CONFIG.ALLOWED_METHODS
methodAllowed(method) == \E i \in 1..Len(ALLOWED_METHODS) : ALLOWED_METHODS[i] = method

(***************************************************************************)
(* The URL class of the runtime, for the URLs the model draws: a scheme,   *)
(* an optional authority host[:port], a path, a query and a fragment.      *)
(* User information, dot segments and percent-encoding are outside the     *)
(* drawn inputs.                                                           *)
(***************************************************************************)
\* characters that end the authority of a URL
AuthorityEnd == {"/", "?", "#", "\\"}

\* characters a host may not contain
ForbiddenHostChars ==
  {" ", "#", "/", ":", "<", ">", "?", "@", "[", "\\", "]", "^", "|", "%"}

\* characters of a scheme after its first letter
SchemeChars == LowerAlpha \cup UpperAlpha \cup Digits \cup {"+", "-", "."}

\* index of the first character of s that is in set, Len(s) + 1 when none is
firstIndexIn(s, set) ==
  IF \E i \in 1..Len(s) : s[i] \in set
    THEN CHOOSE k \in 1..Len(s) :
           s[k] \in set /\ \A j \in 1..(k - 1) : s[j] \notin set
    ELSE Len(s) + 1

\* the suffix of s that starts at index i
dropTo(s, i) == SubSeq(s, i, Len(s))

\* the result of a failed parse (new URL throws a TypeError)
URLFailure == [ok |-> FALSE]

\* s without its leading slashes and backslashes
RECURSIVE skipSlashes(_)
skipSlashes(s) ==
  IF s # <<>> /\ Head(s) \in {"/", "\\"} THEN skipSlashes(Tail(s)) ELSE s

\* path, query and fragment of what follows the authority
splitPath(rest) ==
  LET h == firstIndexIn(rest, {"#"})
      beforeHash == SubSeq(rest, 1, h - 1)
      q == firstIndexIn(beforeHash, {"?"})
      p == SubSeq(beforeHash, 1, q - 1)
      qs == dropTo(beforeHash, q)
      hs == dropTo(rest, h)
  IN [pathname |-> IF p = <<>> THEN Slash ELSE p,
      search |-> IF Len(qs) <= 1 THEN <<>> ELSE qs,
      hash |-> IF Len(hs) <= 1 THEN <<>> ELSE hs]

DigitSeq == <<"0", "1", "2", "3", "4", "5", "6", "7", "8", "9">>

digitValue(c) == (CHOOSE n \in 1..10 : DigitSeq[n] = c) - 1

\* the number a string of digits writes in a base
RECURSIVE numberIn(_, _)
numberIn(s, base) ==
  IF s = <<>> THEN 0
  ELSE base * numberIn(SubSeq(s, 1, Len(s) - 1), base) + digitValue(s[Len(s)])

\* the decimal digits of a natural number
RECURSIVE numToString(_)
numToString(n) ==
  IF n < 10 THEN <<DigitSeq[n + 1]>>
  ELSE numToString(n \div 10) \o <<DigitSeq[(n % 10) + 1]>>

\* the labels of a host, without the empty label a trailing dot leaves
hostLabels(host) ==
  LET parts == split(host, Dot) IN
    IF Len(parts) > 1 /\ parts[Len(parts)] = <<>>
      THEN SubSeq(parts, 1, Len(parts) - 1)
      ELSE parts

\* TRUE when the last of some labels is made of digits
lastIsNumber(labels) ==
  /\ labels[Len(labels)] # <<>>
  /\ \A i \in 1..Len(labels[Len(labels)]) : labels[Len(labels)][i] \in Digits

\* the ends-in-a-number checker: the last label is made of digits
endsInNumber(host) == lastIsNumber(hostLabels(host))

\* the IPv4 number parser: octal after a leading 0, else decimal, -1 for a
\* failure; numbers of more than 9 digits are not drawn
ipv4Number(part) ==
  IF \/ part = <<>>
     \/ Len(part) > 9
     \/ \E i \in 1..Len(part) : part[i] \notin Digits
    THEN -1
  ELSE IF Len(part) > 1 /\ part[1] = "0"
    THEN IF \E i \in 1..Len(part) : part[i] \in {"8", "9"}
           THEN -1
           ELSE numberIn(part, 8)
  ELSE numberIn(part, 10)

Pow256 == <<1, 256, 65536, 16777216>>

\* octet i of the address that n numbers write: the last number fills the
\* octets the others leave
ipv4Octet(numbers, n, i) ==
  IF i < n THEN numbers[i] ELSE (numbers[n] \div Pow256[5 - i]) % 256

\* the dotted decimal form of the address that n numbers write, <<>> when a
\* number is a failure or too large
serializeIpv4(numbers, n) ==
  IF \/ n > 4
     \/ \E i \in 1..n : numbers[i] < 0
     \/ \E i \in 1..(n - 1) : numbers[i] > 255
     \/ (n > 1 /\ numbers[n] >= Pow256[6 - n])
    THEN <<>>
    ELSE join([i \in 1..4 |-> numToString(ipv4Octet(numbers, n, i))], Dot)

\* the numbers of the labels of an IPv4 host
ipv4Numbers(parts) == [i \in 1..Len(parts) |-> ipv4Number(parts[i])]

\* the IPv4 parser and serializer: the dotted decimal form of the address a
\* host of one to four numbers writes, <<>> for a failure
parseIpv4(host) ==
  serializeIpv4(ipv4Numbers(hostLabels(host)), Len(hostLabels(host)))

HexDigits == Digits \cup {"a", "b", "c", "d", "e", "f"}

\* the host parser on a lower-case host
parseLowerHost(host) ==
  IF host = <<>> THEN <<>>
  ELSE IF host[1] = "["
    THEN IF /\ Len(host) > 3
            /\ host[Len(host)] = "]"
            /\ \A i \in 2..(Len(host) - 1) : host[i] \in HexDigits \cup {":"}
            /\ \E i \in 2..(Len(host) - 1) : host[i] = ":"
           THEN host
           ELSE <<>>
  ELSE IF \E i \in 1..Len(host) : host[i] \in ForbiddenHostChars THEN <<>>
  ELSE IF endsInNumber(host) THEN parseIpv4(host)
  ELSE host

\* the host parser: the serialized host, <<>> for a failure.  An IPv6
\* address in brackets is kept as written (the drawn ones are in their
\* compressed form); hexadecimal IPv4 numbers and percent-encoding are not
\* drawn
parseHost(input) == parseLowerHost(toLowerCase(input))

\* where the host of an authority ends: at the colon of the port, after the
\* closing bracket of an IPv6 address, at the end of the authority when the
\* bracket is not closed
hostEnd(authority) ==
  IF authority # <<>> /\ authority[1] = "["
    THEN IF firstIndexIn(authority, {"]"}) > Len(authority)
           THEN Len(authority) + 1
           ELSE firstIndexIn(authority, {"]"}) + 1
    ELSE firstIndexIn(authority, {":"})

\* the port of a URL: empty when it is the default port of the scheme
serializePort(protocol, port) ==
  IF \/ (protocol = HttpsScheme /\ port = <<"4", "4", "3">>)
     \/ (protocol = HttpScheme /\ port = <<"8", "0">>)
    THEN <<>>
    ELSE port

\* a special URL of a parsed host, a port and a parsed path; junk stands
\* for characters between the host and the colon of the port
specialURL(protocol, host, junk, port, tail) ==
  IF \/ host = <<>>
     \/ junk
     \/ (\E i \in 1..Len(port) : port[i] \notin Digits)
    THEN URLFailure
    ELSE [ok |-> TRUE, special |-> TRUE, protocol |-> protocol,
          hostname |-> host, port |-> serializePort(protocol, port),
          pathname |-> tail.pathname,
          search |-> tail.search, hash |-> tail.hash]

\* a special URL of an authority, whose host ends before index c, and a path
parseAuthority(protocol, authority, c, rest) ==
  specialURL(protocol,
             parseHost(SubSeq(authority, 1, c - 1)),
             c <= Len(authority) /\ authority[c] # ":",
             IF c < Len(authority) THEN dropTo(authority, c + 1) ELSE <<>>,
             splitPath(rest))

\* a special URL of what follows the slashes, whose authority ends before
\* index e
parseAfterSlashes(protocol, rest, e) ==
  parseAuthority(protocol, SubSeq(rest, 1, e - 1),
                 hostEnd(SubSeq(rest, 1, e - 1)), dropTo(rest, e))

\* a URL of a special scheme (http, https) from what follows "scheme:"
parseSpecial(protocol, afterColon) ==
  parseAfterSlashes(protocol, skipSlashes(afterColon),
                    firstIndexIn(skipSlashes(afterColon), AuthorityEnd))

\* TRUE when s begins with a scheme followed by a colon
hasScheme(s) ==
  LET c == firstIndexIn(s, {":"}) IN
    /\ c <= Len(s)
    /\ c > 1
    /\ s[1] \in LowerAlpha \cup UpperAlpha
    /\ \A i \in 2..(c - 1) : s[i] \in SchemeChars

\* new URL(s): s is parsed without a base
parseURL(s) ==
  IF ~hasScheme(s) THEN URLFailure
  ELSE LET c == firstIndexIn(s, {":"})
           protocol == toLowerCase(SubSeq(s, 1, c))
           afterColon == dropTo(s, c + 1)
       IN IF protocol \in {HttpsScheme, HttpScheme}
            THEN parseSpecial(protocol, afterColon)
            ELSE [ok |-> TRUE, special |-> FALSE, protocol |-> protocol,
                  hostname |-> <<>>, port |-> <<>>, pathname |-> afterColon,
                  search |-> <<>>, hash |-> <<>>]

\* URL.prototype.host: the hostname, and the port when there is one
urlHost(u) ==
  IF u.port = <<>> THEN u.hostname ELSE u.hostname \o <<":">> \o u.port

\* URL.prototype.origin of a special URL
urlOrigin(u) == u.protocol \o SlashSlash \o urlHost(u)

\* URL.prototype.toString
urlToString(u) ==
  IF u.special
    THEN u.protocol \o SlashSlash \o urlHost(u) \o u.pathname \o u.search
           \o u.hash
    ELSE u.protocol \o u.pathname

\* new URL(s, base): s is parsed against the origin of a special URL
parseURLWithBase(s, base) ==
  IF hasScheme(s) THEN parseURL(s)
  ELSE IF startsWith(s, SlashSlash) THEN parseSpecial(base.protocol, s)
  ELSE IF startsWith(s, Slash) THEN parseURL(urlOrigin(base) \o s)
  ELSE parseURL(urlOrigin(base) \o Slash \o s)

\* the hostname setter: a value that is no host leaves the URL unchanged
setHostname(u, h) ==
  IF ~u.special \/ parseHost(h) = <<>>
    THEN u
    ELSE [u EXCEPT !.hostname = parseHost(h)]

\* the protocol setter: a special URL only takes another special scheme, and
\* a port that is the default port of the new scheme is dropped
setProtocol(u, p) ==
  IF u.special /\ p \in {HttpsScheme, HttpScheme}
    THEN [u EXCEPT !.protocol = p, !.port = serializePort(p, u.port)]
    ELSE u

(***************************************************************************)
(* The Headers class of the runtime: a map from lower-cased names to       *)
(* values.                                                                 *)
(***************************************************************************)
\* new Headers()
EmptyHeaders == [n \in {} |-> <<>>]

hHas(h, name) == toLowerCase(name) \in DOMAIN h

\* Headers.prototype.get, null when the header is absent
hGet(h, name) == IF hHas(h, name) THEN h[toLowerCase(name)] ELSE NULL

hSet(h, name, value) ==
  [n \in DOMAIN h \cup {toLowerCase(name)} |->
     IF n = toLowerCase(name) THEN value ELSE h[n]]

hDelete(h, name) == [n \in DOMAIN h \ {toLowerCase(name)} |-> h[n]]

\* the Headers object the runtime builds from the header lines of a message,
\* given as a set of <<name, value>> pairs with names of distinct lower case
headersOf(lines) ==
  [n \in {toLowerCase(l[1]) : l \in lines} |->
     (CHOOSE l \in lines : toLowerCase(l[1]) = n)[2]]

(***************************************************************************)
(* Responses the worker builds itself.                                     *)
(***************************************************************************)
\* a response without a body
NullBody == [kind |-> "null"]

\* addCorsHeaders that sets the wildcard origin only
addCorsHeadersOriginOnly(headers) == hSet(headers, AllowOriginName, Star)

addCorsHeaders(headers) ==
  LET h1 == hSet(headers, AllowOriginName, Star)
      h2 == hSet(h1, AllowMethodsName, join(ALLOWED_METHODS, CommaSpace))
      h3 == hSet(h2, AllowHeadersName, CorsAllowHeadersValue)
      h4 == hSet(h3, MaxAgeName, CORS_MAX_AGE)
  IN hSet(h4, ExposeHeadersName, CorsExposeHeadersValue)

\* createErrorResponse whose body always says 500
createErrorResponseFixedStatus(message, status) ==
  [status |-> status,
   headers |-> addCorsHeaders(hSet(EmptyHeaders, ContentTypeCapName,
                                   JsonContentType)),
   body |-> [kind |-> "json", error |-> message, status |-> 500,
             timestamp |-> "now"]]

\* the body is the JSON text of {error, status, timestamp}
createErrorResponse(message, status) ==
  [status |-> status,
   headers |-> addCorsHeaders(hSet(EmptyHeaders, ContentTypeCapName,
                                   JsonContentType)),
   body |-> [kind |-> "json", error |-> message, status |-> status,
             timestamp |-> "now"]]

\* headersToRemove.forEach(header => headers.delete(header))
removeHeaders(headers) == [n \in DOMAIN headers \ headersToRemove |-> headers[n]]

createProxyResponse(originalResponse) ==
  [status |-> originalResponse.status,
   headers |-> removeHeaders(addCorsHeaders(originalResponse.headers)),
   body |-> originalResponse.body]

\* handleOptions answering 200 instead of 204
handleOptionsStatus200(request) ==
  [status |-> 200, headers |-> addCorsHeaders(EmptyHeaders), body |-> NullBody]

handleOptions(request) ==
  LET h0 == addCorsHeaders(EmptyHeaders)
      requestHeaders == hGet(request.headers, RequestHeadersName)
      h1 == IF requestHeaders # NULL /\ requestHeaders # <<>>
              THEN hSet(h0, AllowHeadersName, requestHeaders)
              ELSE h0
      requestMethod == hGet(request.headers, RequestMethodName)
      h2 == IF requestMethod # NULL /\ requestMethod # <<>>
                 /\ methodAllowed(requestMethod)
              THEN hSet(h1, AllowMethodsName,
                        join(ALLOWED_METHODS, CommaSpace))
              ELSE h1
  IN [status |-> 204, headers |-> h2, body |-> NullBody]

(***************************************************************************)
(* The header sanitizer.                                                   *)
(***************************************************************************)
\* the first loop without the deny-list
copyEveryHeader(originalHeaders) == originalHeaders

\* the first loop: every header whose lower-cased name is not blocked
copyAllowedHeaders(originalHeaders) ==
  [n \in {k \in DOMAIN originalHeaders : toLowerCase(k) \notin BLOCKED_HEADERS}
     |-> originalHeaders[n]]

\* cleanRequestHeaders that leaves the Referer as it was copied
rewriteRefererKept(cleaned, originalHeaders, targetUrl) == cleaned

\* the Referer of the outbound request: rewritten when it parses, else deleted
rewriteReferer(cleaned, originalHeaders, targetUrl) ==
  IF ~hHas(originalHeaders, RefererName) THEN cleaned
  ELSE LET refererUrl == parseURL(hGet(originalHeaders, RefererName)) IN
    IF ~refererUrl.ok THEN hDelete(cleaned, RefererName)
    ELSE hSet(cleaned, RefererName,
              urlToString(setProtocol(setHostname(refererUrl,
                                                  targetUrl.hostname),
                                      targetUrl.protocol)))

\* a header is set to its default when the headers do not have it
backfill(h, name, value) == IF hHas(h, name) THEN h ELSE hSet(h, name, value)

\* cleanRequestHeaders without the forced Host and Origin
cleanRequestHeadersUnforced(originalHeaders, targetUrl) ==
  LET copied == copyAllowedHeaders(originalHeaders)
      withReferer == rewriteReferer(copied, originalHeaders, targetUrl)
      h1 == backfill(withReferer, UserAgentName, DefaultUserAgent)
      h2 == backfill(h1, AcceptName, DefaultAccept)
      h3 == backfill(h2, AcceptLanguageName, DefaultAcceptLanguage)
  IN backfill(h3, AcceptEncodingName, DefaultAcceptEncoding)

cleanRequestHeaders(originalHeaders, targetUrl) ==
  LET copied == copyAllowedHeaders(originalHeaders)
      withHost == hSet(copied, HostName, targetUrl.hostname)
      withOrigin == IF hHas(originalHeaders, OriginName)
                      THEN hSet(withHost, OriginName, urlOrigin(targetUrl))
                      ELSE withHost
      withReferer == rewriteReferer(withOrigin, originalHeaders, targetUrl)
      h1 == backfill(withReferer, UserAgentName, DefaultUserAgent)
      h2 == backfill(h1, AcceptName, DefaultAccept)
      h3 == backfill(h2, AcceptLanguageName, DefaultAcceptLanguage)
  IN backfill(h3, AcceptEncodingName, DefaultAcceptEncoding)

(***************************************************************************)
(* The target URL.                                                         *)
(***************************************************************************)
\* the result of buildTargetUrl when it throws
TargetFailure == [ok |-> FALSE, message |-> "Invalid subdomain format"]

\* buildTargetUrl that keeps scheme and port of the inbound URL
buildTargetUrlSameOrigin(subdomain, originalUrl) ==
  LET targetDomain == convertSubdomainToUrl(subdomain) IN
    IF targetDomain = NULL THEN TargetFailure
    ELSE LET parsed == parseURL(originalUrl.protocol \o SlashSlash
                                  \o targetDomain) IN
      IF ~parsed.ok THEN [ok |-> FALSE, message |-> "Invalid URL"]
      ELSE [parsed EXCEPT !.port = originalUrl.port,
                          !.pathname = originalUrl.pathname,
                          !.search = originalUrl.search]

buildTargetUrl(subdomain, originalUrl) ==
  LET targetDomain == convertSubdomainToUrl(subdomain) IN
    IF targetDomain = NULL THEN TargetFailure
    ELSE LET parsed == parseURL(HttpsScheme \o SlashSlash \o targetDomain) IN
      IF ~parsed.ok THEN [ok |-> FALSE, message |-> "Invalid URL"]
      ELSE [parsed EXCEPT !.pathname = originalUrl.pathname,
                          !.search = originalUrl.search]

(***************************************************************************)
(* The redirect normalizer.                                                *)
(***************************************************************************)
\* the test /^[a-zA-Z0-9.-]+\.[a-zA-Z]{2,}$/
testStandardDomain(hostname) ==
  \E k \in 2..(Len(hostname) - 2) :
    /\ hostname[k] = "."
    /\ \A i \in 1..(k - 1) : hostname[i] \in AlnumDotHyphen
    /\ \A i \in (k + 1)..Len(hostname) :
         hostname[i] \in LowerAlpha \cup UpperAlpha

\* isStandardDomain without the test for a double hyphen
isStandardDomainLoose(hostname) ==
  /\ testStandardDomain(hostname)
  /\ includes(hostname, Dot)

isStandardDomain(hostname) ==
  /\ testStandardDomain(hostname)
  /\ includes(hostname, Dot)
  /\ ~includes(hostname, DoubleHyphen)

\* originalUrl.hostname.split('.').slice(1).join('.')
proxyDomainOf(hostname) == join(slice1(split(hostname, Dot)), Dot)

\* handleRedirect that never rewrites the Location
handleRedirectPassThrough(response, originalRequest) ==
  createProxyResponse(response)

handleRedirect(response, originalRequest) ==
  LET location == hGet(response.headers, LocationName) IN
    IF location = NULL \/ location = <<>> THEN createProxyResponse(response)
    ELSE LET redirectUrl == parseURL(location) IN
      IF ~redirectUrl.ok THEN createProxyResponse(response)
      ELSE IF ~isStandardDomain(redirectUrl.hostname)
        THEN createProxyResponse(response)
      ELSE LET convertedSubdomain == convertUrlToSubdomain(redirectUrl.hostname)
           IN
        IF convertedSubdomain = NULL THEN createProxyResponse(response)
        ELSE LET proxyDomain == proxyDomainOf(originalRequest.hostname)
                 rewritten == setHostname(redirectUrl,
                                convertedSubdomain \o Dot \o proxyDomain)
             IN [status |-> response.status,
                 headers |-> addCorsHeaders(hSet(response.headers, LocationName,
                                                 urlToString(rewritten))),
                 body |-> response.body]

(***************************************************************************)
(* The content rewriter.  A body is a sequence of segments: a "raw"        *)
(* segment is text that holds no URL, an "attr" segment is the quoted      *)
(* value of an href or src attribute inside an HTML tag, a "srcset"        *)
(* segment the quoted value of a srcset attribute, a "script" segment an   *)
(* inline script, whose content is a sequence of segments of its own.      *)
(***************************************************************************)
HtmlWord ==
  <<"h", "t", "m", "l">>

CssWord ==
  <<"c", "s", "s">>

JavascriptWord ==
  <<"j", "a", "v", "a", "s", "c", "r", "i", "p", "t">>

JsonWord ==
  <<"j", "s", "o", "n">>

DataScheme ==
  <<"d", "a", "t", "a", ":">>

BlobScheme ==
  <<"b", "l", "o", "b", ":">>

Hash ==
  <<"#">>

\* the regular expressions of commonCdnPatterns, as the source writes them:
\* "\\." is a backslash followed by any character ("any")
commonCdnPatterns ==
  { <<"\\", "any", "c", "l", "o", "u", "d", "f", "l", "a", "r", "e",
      "\\", "any", "c", "o", "m">>,
    <<"\\", "any", "g", "o", "o", "g", "l", "e", "a", "p", "i", "s",
      "\\", "any", "c", "o", "m">>,
    <<"\\", "any", "g", "s", "t", "a", "t", "i", "c", "\\", "any", "c", "o", "m">>,
    <<"\\", "any", "j", "s", "d", "e", "l", "i", "v", "r", "\\", "any", "n", "e", "t">>,
    <<"\\", "any", "u", "n", "p", "k", "g", "\\", "any", "c", "o", "m">> }

\* pattern.test(s) for a pattern anchored at the end of s
testSuffixPattern(s, pattern) ==
  /\ Len(pattern) <= Len(s)
  /\ \A k \in 1..Len(pattern) :
       \/ pattern[k] = "any"
       \/ pattern[k] = s[Len(s) - Len(pattern) + k]

shouldRewriteContent(contentType) ==
  IF contentType = <<>> THEN FALSE
  ELSE \E type \in REWRITABLE_CONTENT_TYPES :
         includes(toLowerCase(contentType), type)

\* shouldProxyUrl that finds every URL eligible
shouldProxyUrlAnyHost(url, targetUrl) == TRUE

\* shouldProxyUrl without the rule for the subdomains of the target
shouldProxyUrlSameHostOnly(url, targetUrl) ==
  url.hostname = targetUrl.hostname

shouldProxyUrl(url, targetUrl) ==
  IF url.hostname = targetUrl.hostname THEN TRUE
  ELSE IF endsWith(url.hostname, Dot \o targetUrl.hostname) THEN TRUE
  ELSE IF \E pattern \in commonCdnPatterns :
            testSuffixPattern(url.hostname, pattern) THEN FALSE
  ELSE FALSE

\* s.replace(/\\./g, to) as the source writes it: what is replaced is a
\* backslash followed by any character, not a dot
RECURSIVE replaceBackslashAny(_, _)
replaceBackslashAny(s, to) ==
  IF s = <<>> THEN <<>>
  ELSE IF Head(s) = "\\" /\ Len(s) >= 2
    THEN to \o replaceBackslashAny(dropTo(s, 3), to)
    ELSE <<Head(s)>> \o replaceBackslashAny(Tail(s), to)

rewriteUrl(url, targetUrl, proxyDomain) ==
  IF \/ url = <<>>
     \/ startsWith(url, DataScheme)
     \/ startsWith(url, BlobScheme)
     \/ startsWith(url, Hash)
    THEN url
  ELSE LET absoluteUrl == parseURLWithBase(url, targetUrl) IN
    IF ~absoluteUrl.ok THEN url
    ELSE IF shouldProxyUrl(absoluteUrl, targetUrl)
      THEN LET proxySubdomain ==
                 replaceBackslashAny(absoluteUrl.hostname, DoubleHyphen)
           IN urlToString(setProtocol(
                setHostname(absoluteUrl, proxySubdomain \o Dot \o proxyDomain),
                HttpsScheme))
      ELSE url

\* src.trim().split(/\s+/) of one candidate of a srcset: the parts between
\* runs of blanks; cur is the part being collected
RECURSIVE splitBlanks(_, _)
splitBlanks(rest, cur) ==
  IF rest = <<>> THEN <<cur>>
  ELSE IF Head(rest) = " "
    THEN IF Len(rest) >= 2 /\ rest[2] = " "
           THEN splitBlanks(Tail(rest), cur)
           ELSE <<cur>> \o splitBlanks(Tail(rest), <<>>)
    ELSE splitBlanks(Tail(rest), Append(cur, Head(rest)))

\* the callback of the srcset pattern on one candidate: the URL is rewritten
\* and the first descriptor kept
rewriteCandidate(src, targetUrl, proxyDomain) ==
  LET parts == splitBlanks(trim(src), <<>>)
      rewrittenUrl == rewriteUrl(parts[1], targetUrl, proxyDomain)
  IN IF Len(parts) >= 2 /\ parts[2] # <<>>
       THEN rewrittenUrl \o <<" ">> \o parts[2]
       ELSE rewrittenUrl

\* the handler of the srcset pattern: the candidates between commas are
\* rewritten and joined by a comma and a blank
rewriteSrcset(srcset, targetUrl, proxyDomain) ==
  LET candidates == split(srcset, <<",">>) IN
    join([k \in 1..Len(candidates) |->
            rewriteCandidate(candidates[k], targetUrl, proxyDomain)],
         <<",", " ">>)

\* the href, src, action and meta patterns: the URL of every "attr" segment
\* goes through rewriteUrl, the value of every "srcset" segment through the
\* srcset handler; the drawn documents have no style attribute
rewriteHtmlPatterns(html, targetUrl, proxyDomain) ==
  [i \in 1..Len(html) |->
     IF html[i].kind = "attr"
       THEN [html[i] EXCEPT !.text = rewriteUrl(html[i].text, targetUrl,
                                                proxyDomain)]
     ELSE IF html[i].kind = "srcset"
       THEN [html[i] EXCEPT !.text = rewriteSrcset(html[i].text, targetUrl,
                                                   proxyDomain)]
       ELSE html[i]]

\* url(...) and @import: neither occurs in a "raw" or an "attr" segment
rewriteCss(css, targetUrl, proxyDomain) == css

\* the code the rewriter puts in front of a script
InjectionCode == [kind |-> "shim", text |-> <<>>]

\* the length of "http://" or "https://" at pos, 0 when neither is there
schemeLenAt(text, pos) ==
  IF startsWith(toLowerCase(dropTo(text, pos)), HttpsScheme \o SlashSlash)
    THEN 8
  ELSE IF startsWith(toLowerCase(dropTo(text, pos)), HttpScheme \o SlashSlash)
    THEN 7
  ELSE 0

\* the handler of urlPattern on one string literal
rewriteStringLiteral(url, targetUrl, proxyDomain) ==
  LET urlObj == parseURL(url) IN
    IF urlObj.ok /\ shouldProxyUrl(urlObj, targetUrl)
      THEN rewriteUrl(url, targetUrl, proxyDomain)
      ELSE url

\* a quoted attribute value is a string literal of the urlPattern when it
\* begins with http:// or https://; the drawn scripts have no <script> tag,
\* so the injected code comes first
rewriteJavaScript(js, targetUrl, proxyDomain) ==
  <<InjectionCode>> \o
    [i \in 1..Len(js) |->
       IF /\ js[i].kind = "attr"
          /\ schemeLenAt(js[i].text, 1) > 0
         THEN [js[i] EXCEPT !.text = rewriteStringLiteral(js[i].text,
                                       targetUrl, proxyDomain)]
         ELSE js[i]]

\* a "script" segment is a <script> element without a src attribute; its
\* content goes through rewriteJavaScript
rewriteInlineScripts(html, targetUrl, proxyDomain) ==
  [i \in 1..Len(html) |->
     IF html[i].kind = "script"
       THEN [html[i] EXCEPT !.segments = rewriteJavaScript(html[i].segments,
                                           targetUrl, proxyDomain)]
       ELSE html[i]]

rewriteHtml(html, targetUrl, proxyDomain) ==
  rewriteInlineScripts(rewriteHtmlPatterns(html, targetUrl, proxyDomain),
                       targetUrl, proxyDomain)

\* JSON.parse throws on a document of tags and text: the content is returned
rewriteJson(json, targetUrl, proxyDomain) == json

\* TRUE when the host pattern matches text at pos; the host is not escaped
\* by escapeRegExp, so each of its dots matches any character
hostMatchesAt(text, pos, host) ==
  /\ pos + Len(host) - 1 <= Len(text)
  /\ \A k \in 1..Len(host) :
       \/ host[k] = "."
       \/ toLowerChar(text[pos + k - 1]) = toLowerChar(host[k])

\* the end of the optional group ([a-zA-Z0-9.-]*\\.)? that starts at pos, or
\* 0 when the group does not take part in the match
subdomainGroupEnd(text, pos, host) ==
  LET ends == {j \in pos..(Len(text) - 1) :
                 /\ \A i \in pos..(j - 1) : text[i] \in AlnumDotHyphen
                 /\ text[j] = "\\"
                 /\ hostMatchesAt(text, j + 2, host)}
  IN IF ends = {} THEN 0 ELSE CHOOSE j \in ends : \A e \in ends : e <= j

\* content.replace(targetDomainRegex, ...) on one text, from left to right
RECURSIVE replaceTargetDomain(_, _, _, _)
replaceTargetDomain(text, pos, targetUrl, proxyDomain) ==
  IF pos > Len(text) THEN <<>>
  ELSE LET n == schemeLenAt(text, pos)
           g == IF n = 0 THEN 0
                ELSE subdomainGroupEnd(text, pos + n, targetUrl.hostname)
           start == IF g = 0 THEN pos + n ELSE g + 2
           subdomain == IF g = 0 THEN <<>> ELSE SubSeq(text, pos + n, g + 1)
       IN IF n > 0 /\ hostMatchesAt(text, start, targetUrl.hostname)
            THEN LET fullDomain == subdomain \o targetUrl.hostname
                     proxySubdomain ==
                       replaceBackslashAny(fullDomain, DoubleHyphen)
                 IN HttpsScheme \o SlashSlash \o proxySubdomain \o Dot
                      \o proxyDomain
                      \o replaceTargetDomain(text,
                           start + Len(targetUrl.hostname), targetUrl,
                           proxyDomain)
            ELSE <<text[pos]>>
                   \o replaceTargetDomain(text, pos + 1, targetUrl, proxyDomain)

rewriteGeneric(content, targetUrl, proxyDomain) ==
  [i \in 1..Len(content) |->
     IF content[i].kind = "attr"
       THEN [content[i] EXCEPT !.text = replaceTargetDomain(content[i].text, 1,
                                          targetUrl, proxyDomain)]
       ELSE content[i]]

rewriteContent(content, contentType, targetUrl, proxyUrl) ==
  LET proxyDomain == proxyDomainOf(proxyUrl.hostname) IN
    IF includes(contentType, HtmlWord)
      THEN rewriteHtml(content, targetUrl, proxyDomain)
    ELSE IF includes(contentType, CssWord)
      THEN rewriteCss(content, targetUrl, proxyDomain)
    ELSE IF includes(contentType, JavascriptWord)
      THEN rewriteJavaScript(content, targetUrl, proxyDomain)
    ELSE IF includes(contentType, JsonWord)
      THEN rewriteJson(content, targetUrl, proxyDomain)
    ELSE rewriteGeneric(content, targetUrl, proxyDomain)

\* the response of the content-rewriting variant of the pipeline
createProxyResponseWithRewrite(originalResponse, originalRequest, targetUrl) ==
  LET got == hGet(originalResponse.headers, ContentTypeName)
      contentType == IF got = NULL THEN <<>> ELSE got
  IN IF ~shouldRewriteContent(contentType)
       THEN createProxyResponse(originalResponse)
       ELSE [status |-> originalResponse.status,
             headers |-> removeHeaders(addCorsHeaders(originalResponse.headers)),
             body |-> [kind |-> "text",
                       segments |-> rewriteContent(originalResponse.body.segments,
                                      contentType, targetUrl, originalRequest)]]

(***************************************************************************)
(* The landing host: the page and the link-generation API.                 *)
(***************************************************************************)
\* Number(s) for a string of decimal digits
toNumber(s) == numberIn(s, 10)

\* the test /^(\d{1,3}\.){3}\d{1,3}$/
testIpv4(hostname) ==
  LET parts == split(hostname, Dot) IN
    /\ Len(parts) = 4
    /\ \A i \in 1..4 :
         /\ Len(parts[i]) \in 1..3
         /\ \A k \in 1..Len(parts[i]) : parts[i][k] \in Digits

localDomains ==
  { <<"l", "o", "c", "a", "l", "h", "o", "s", "t">>,
    <<"1", "2", "7", ".", "0", ".", "0", ".", "1">>,
    <<":", ":", "1">> }

isPrivateIpv4(hostname) ==
  LET strs == split(hostname, Dot)
      parts == [i \in 1..4 |-> toNumber(strs[i])]
  IN \/ parts[1] = 10
     \/ (parts[1] = 172 /\ parts[2] >= 16 /\ parts[2] <= 31)
     \/ (parts[1] = 192 /\ parts[2] = 168)
     \/ parts[1] = 127
     \/ (parts[1] = 169 /\ parts[2] = 254)

isPublicUrl(url) ==
  LET hostname == toLowerCase(url.hostname) IN
    IF testIpv4(hostname) /\ isPrivateIpv4(hostname) THEN FALSE
    ELSE IF hostname \in localDomains THEN FALSE
    ELSE TRUE

\* normalizeUrl that adds no scheme
normalizeUrlPlain(url) == trim(url)

\* the url argument is a non-empty string here
normalizeUrl(url) ==
  LET trimmed == trim(url) IN
    IF \/ startsWith(toLowerCase(trimmed), HttpsScheme \o SlashSlash)
       \/ startsWith(toLowerCase(trimmed), HttpScheme \o SlashSlash)
      THEN trimmed
    ELSE IF startsWith(trimmed, SlashSlash) THEN HttpsScheme \o trimmed
    ELSE HttpsScheme \o SlashSlash \o trimmed

CacheControlValue ==
  <<"p", "u", "b", "l", "i", "c", ",", " ", "m", "a", "x", "-", "a", "g", "e",
    "=", "3", "6", "0", "0">>

Nosniff ==
  <<"n", "o", "s", "n", "i", "f", "f">>

Deny ==
  <<"D", "E", "N", "Y">>

XssProtectionValue ==
  <<"1", ";", " ", "m", "o", "d", "e", "=", "b", "l", "o", "c", "k">>

\* what a template literal makes of null
NullText ==
  <<"n", "u", "l", "l">>

\* the body of a request is "none", "bytes" (not JSON) or "json"; a JSON body
\* is an object that has a string url property or none
handleGenerateApi(request) ==
  IF request.method # POST THEN createErrorResponse("Method not allowed", 405)
  ELSE IF request.body.kind # "json"
    THEN createErrorResponse("Invalid request body", 400)
  ELSE IF ~request.body.hasUrl \/ request.body.url = <<>>
    THEN createErrorResponse("URL is required", 400)
  ELSE LET targetUrl == normalizeUrl(request.body.url)
           parsedUrl == parseURL(targetUrl)
       IN
    IF ~parsedUrl.ok THEN createErrorResponse("Invalid URL format", 400)
    ELSE IF parsedUrl.protocol \notin {HttpScheme, HttpsScheme}
      THEN createErrorResponse("Only HTTP and HTTPS URLs are supported", 400)
    ELSE IF ~isPublicUrl(parsedUrl)
      THEN createErrorResponse("Private network URLs are not allowed", 403)
    ELSE LET converted == convertUrlToSubdomain(parsedUrl.hostname)
             proxySubdomain == IF converted = NULL THEN NullText ELSE converted
             proxyDomain == proxyDomainOf(request.hostname)
             proxyUrl == HttpsScheme \o SlashSlash \o proxySubdomain \o Dot
                           \o proxyDomain \o parsedUrl.pathname
                           \o parsedUrl.search
         IN [status |-> 200,
             headers |-> hSet(hSet(EmptyHeaders, ContentTypeCapName,
                                   JsonContentType),
                              AllowOriginName, Star),
             body |-> [kind |-> "generated", success |-> TRUE,
                       originalUrl |-> targetUrl, proxyUrl |-> proxyUrl]]

\* the page is the HTML of getProxyPageHTML for the gateway's base domain
handleProxyPage(request) ==
  IF request.pathname = ApiGeneratePath THEN handleGenerateApi(request)
  ELSE [status |-> 200,
        headers |->
          hSet(hSet(hSet(hSet(hSet(EmptyHeaders,
            ContentTypeCapName, HtmlUtf8ContentType),
            CacheControlName, CacheControlValue),
            XContentTypeOptionsName, Nosniff),
            XFrameOptionsName, Deny),
            XssProtectionName, XssProtectionValue),
        body |-> [kind |-> "page",
                  domain |-> proxyDomainOf(request.hostname)]]

(***************************************************************************)
(* The request dispatcher.  handleRequest runs up to its only suspension   *)
(* point, the upstream fetch, and is resumed by the outcome of the fetch.  *)
(***************************************************************************)
\* the options of a proxyRequest that lets fetch follow redirects
proxyRequestOptionsFollow(originalRequest, targetUrl) ==
  [url |-> urlToString(targetUrl),
   method |-> originalRequest.method,
   headers |-> cleanRequestHeaders(originalRequest.headers, targetUrl),
   redirect |-> "follow",
   body |-> IF originalRequest.method \in {GET, HEAD}
              THEN [kind |-> "none"]
              ELSE originalRequest.body]

\* the options proxyRequest hands to fetch, with the URL it fetches
proxyRequestOptions(originalRequest, targetUrl) ==
  [url |-> urlToString(targetUrl),
   method |-> originalRequest.method,
   headers |-> cleanRequestHeaders(originalRequest.headers, targetUrl),
   redirect |-> "manual",
   body |-> IF originalRequest.method \in {GET, HEAD}
              THEN [kind |-> "none"]
              ELSE originalRequest.body]

\* the try block of proxyRequest once fetch has returned a response
proxyRequestOnResponse(response, originalRequest) ==
  IF response.status >= 300 /\ response.status < 400
    THEN handleRedirect(response, originalRequest)
    ELSE createProxyResponse(response)

\* a catch block of proxyRequest that throws every error again
proxyRequestOnErrorRethrow(error) == [threw |-> TRUE, error |-> error]

\* the catch block of proxyRequest: a response, or the error thrown again
proxyRequestOnError(error) ==
  IF error.name = "TimeoutError"
    THEN [threw |-> FALSE,
          response |-> createErrorResponse("Request timeout", 504)]
    ELSE [threw |-> TRUE, error |-> error]

\* a catch block of handleRequest that hides the message of the error
handleRequestCatchGeneric(error) ==
  createErrorResponse("Internal Server Error", 500)

\* the catch block of handleRequest
handleRequestCatch(error) == createErrorResponse(error.message, 500)

\* handleRequest without the check for the landing labels
handleRequestStartNoLanding(request) ==
  LET subdomain == extractSubdomain(request.hostname) IN
    IF subdomain = NULL
      THEN [kind |-> "response",
            response |-> createErrorResponse("Invalid subdomain format", 400)]
    ELSE IF ~methodAllowed(request.method)
      THEN [kind |-> "response",
            response |-> createErrorResponse("Method not allowed", 405)]
    ELSE IF request.method = OPTIONS
      THEN [kind |-> "response", response |-> handleOptions(request)]
    ELSE LET targetUrl == buildTargetUrl(subdomain, request) IN
      IF ~targetUrl.ok
        THEN [kind |-> "response", response |-> handleRequestCatch(targetUrl)]
        ELSE [kind |-> "fetch", targetUrl |-> targetUrl,
              options |-> proxyRequestOptions(request, targetUrl)]

\* handleRequest that applies the private-network exclusion of the link
\* generation to the target it built
handleRequestStartPublicOnly(request) ==
  LET hostParts == split(request.hostname, Dot) IN
    IF hostParts[1] = ProxyLabel \/ hostParts[1] = ProxyDashLabel
      THEN [kind |-> "response", response |-> handleProxyPage(request)]
    ELSE IF /\ handleRequestStartNoLanding(request).kind = "fetch"
            /\ ~isPublicUrl(handleRequestStartNoLanding(request).targetUrl)
      THEN [kind |-> "response",
            response |-> createErrorResponse(
                           "Private network URLs are not allowed", 403)]
    ELSE handleRequestStartNoLanding(request)

\* handleRequest that checks the method before it decodes the host
handleRequestStartMethodFirst(request) ==
  LET hostParts == split(request.hostname, Dot) IN
    IF hostParts[1] = ProxyLabel \/ hostParts[1] = ProxyDashLabel
      THEN [kind |-> "response", response |-> handleProxyPage(request)]
    ELSE IF ~methodAllowed(request.method)
      THEN [kind |-> "response",
            response |-> createErrorResponse("Method not allowed", 405)]
    ELSE IF request.method = OPTIONS
      THEN [kind |-> "response", response |-> handleOptions(request)]
    ELSE handleRequestStartNoLanding(request)

\* handleRequest up to the fetch: a response, or the fetch to issue
handleRequestStart(request) ==
  LET hostParts == split(request.hostname, Dot) IN
    IF hostParts[1] = ProxyLabel \/ hostParts[1] = ProxyDashLabel
      THEN [kind |-> "response", response |-> handleProxyPage(request)]
    ELSE LET subdomain == extractSubdomain(request.hostname) IN
      IF subdomain = NULL
        THEN [kind |-> "response",
              response |-> createErrorResponse("Invalid subdomain format", 400)]
      ELSE IF ~methodAllowed(request.method)
        THEN [kind |-> "response",
              response |-> createErrorResponse("Method not allowed", 405)]
      ELSE IF request.method = OPTIONS
        THEN [kind |-> "response", response |-> handleOptions(request)]
      ELSE LET targetUrl == buildTargetUrl(subdomain, request) IN
        IF ~targetUrl.ok
          THEN [kind |-> "response", response |-> handleRequestCatch(targetUrl)]
          ELSE [kind |-> "fetch", targetUrl |-> targetUrl,
                options |-> proxyRequestOptions(request, targetUrl)]

\* handleRequest without its catch: what proxyRequest throws again is an
\* unhandled rejection, and there is no response
handleRequestResumeUncaught(outcome, request) ==
  IF outcome.kind = "response"
    THEN proxyRequestOnResponse(outcome.response, request)
    ELSE IF proxyRequestOnError(outcome.error).threw
      THEN [kind |-> "none"]
      ELSE proxyRequestOnError(outcome.error).response

\* handleRequest from the outcome of the fetch to its response
handleRequestResume(outcome, request) ==
  IF outcome.kind = "response"
    THEN proxyRequestOnResponse(outcome.response, request)
    ELSE LET caught == proxyRequestOnError(outcome.error) IN
      IF caught.threw THEN handleRequestCatch(caught.error)
      ELSE caught.response

(***************************************************************************)
(* The inputs of the model.                                                *)
(***************************************************************************)
\* every string of at most n characters of chars
StringsUpTo(chars, n) == UNION {[1..k -> chars] : k \in 0..n}

\* characters of the first labels that are enumerated: a letter, the hyphen
\* and a character outside [a-zA-Z0-9-]
LabelChars == {"a", "-", "_"}

GatewaySuffix ==
  <<".", "g", "w", ".", "t", "l", "d">>

YtLabel ==
  <<"y", "t", "-", "-", "c", "o", "m">>

\* hostnames as new URL(request.url).hostname gives them: lower case
FirstLabels ==
  StringsUpTo(LabelChars, MaxLabelLen) \cup {ProxyLabel, ProxyDashLabel, YtLabel}

Hostnames ==
  {l \o GatewaySuffix : l \in FirstLabels}
    \cup {ProxyLabel, YtLabel, <<"a", "-", "-", "a">>}

\* pathname and search of the inbound URL: the root, and a path with a query
RootTail == <<Slash, <<>>>>

WatchTail == <<<<"/", "w">>, <<"?", "v", "=", "1">>>>

Methods == {GET, POST, OPTIONS, TRACE}

\* header lines an inbound request may carry
HeaderLines ==
  { <<<<"X", "-", "F", "o", "r", "w", "a", "r", "d", "e", "d", "-", "F", "o", "r">>,
      <<"1", ".", "2", ".", "3", ".", "4">>>>,
    <<<<"V", "I", "A">>, <<"1", ".", "2", ".", "3", ".", "4">>>>,
    <<OriginName, <<"h", "t", "t", "p", "s", ":", "/", "/", "c", ".", "d">>>>,
    <<HostName, <<"c", ".", "d">>>>,
    <<RefererName,
      <<"h", "t", "t", "p", ":", "/", "/", "c", ".", "d", "/", "p">>>>,
    <<toLowerCase(RefererName), <<"x">>>>,
    <<RefererName,
      <<"H", "T", "T", "P", ":", "/", "/", "C", ".", "d", ":", "8", "1", "/", "p", "?", "q", "=", "1">>>>,
    <<toLowerCase(RefererName), <<"a", "p", "p", ":", "x">>>>,
    <<<<"C", "o", "o", "k", "i", "e">>, <<"k", "=", "v">>>>,
    <<UserAgentName, <<"U", "A">>>>,
    <<RequestHeadersName, <<"x", "-", "a">>>>,
    <<RequestMethodName, PUT>> }

HeaderLineSets ==
  {ls \in SUBSET HeaderLines :
     /\ Cardinality(ls) <= MaxHeaders
     /\ \A l1, l2 \in ls : toLowerCase(l1[1]) = toLowerCase(l2[1]) => l1 = l2}

GithubCom ==
  <<"g", "i", "t", "h", "u", "b", ".", "c", "o", "m">>

SpacedUrl ==
  <<" ", "G", "i", "t", "H", "u", "b", ".", "c", "o", "m", " ">>

SchemeRelativeUrl ==
  <<"/", "/", "a", ".", "a", "a", "/", "x">>

UrlWithPath ==
  <<"h", "t", "t", "p", ":", "/", "/", "a", ".", "a", "a", "/", "x", "?", "y", "=", "1">>

PublicIpv4 ==
  <<"9", "3", ".", "1", "8", "4", ".", "2", "1", "6", ".", "3", "4">>

ShortLoopback ==
  <<"1", "2", "7", ".", "1">>

Localhost ==
  <<"l", "o", "c", "a", "l", "h", "o", "s", "t">>

Loopback6 ==
  <<"[", ":", ":", "1", "]">>

Loopback6Url ==
  <<"h", "t", "t", "p", ":", "/", "/", "[", ":", ":", "1", "]", "/">>

PrivateUrl ==
  <<"h", "t", "t", "p", "s", ":", "/", "/", "1", "0", ".", "0", ".", "0", ".", "1", "/", "x">>

FtpUrl ==
  <<"f", "t", "p", ":", "/", "/", "a", ".", "a", "a">>

FtpExampleUrl ==
  <<"f", "t", "p", ":", "/", "/", "e", "x", "a", "m", "p", "l", "e", ".", "c", "o", "m">>

\* characters of the submitted urls that are enumerated
UrlChars == {"a", "B", "-", "."}

\* first and second octets of the IPv4 literals that are submitted: the
\* values at and around the borders of the private ranges
FirstOctets == {9, 10, 11, 126, 127, 128, 168, 169, 170, 171, 172, 173, 191, 192, 193}

SecondOctets == {0, 15, 16, 17, 31, 32, 167, 168, 169, 253, 254, 255}

Ipv4Literals ==
  {join(<<numToString(a), numToString(b), <<"1">>, <<"2">>>>, Dot) :
     a \in FirstOctets, b \in SecondOctets}

\* urls submitted to the link-generation API
SubmittedUrls ==
  StringsUpTo(UrlChars, MaxUrlLen) \cup Ipv4Literals \cup
  { GithubCom,
    SpacedUrl,
    SchemeRelativeUrl,
    UrlWithPath,
    PublicIpv4,
    ShortLoopback,
    Localhost,
    Loopback6,
    Loopback6Url,
    PrivateUrl,
    FtpUrl,
    FtpExampleUrl }

\* bodies of requests to the link-generation API
GenerateBodies ==
  { [kind |-> "bytes"],
    [kind |-> "json", hasUrl |-> FALSE, url |-> <<>>] }
  \cup {[kind |-> "json", hasUrl |-> TRUE, url |-> u] : u \in SubmittedUrls}

\* a request to https://h, on the default port; GET carries no body, the
\* other methods some bytes
makeRequest(h, t, m, ls) ==
  [protocol |-> HttpsScheme, port |-> <<>>,
   hostname |-> h, pathname |-> t[1], search |-> t[2], method |-> m,
   headers |-> headersOf(ls),
   body |-> IF m = GET THEN [kind |-> "none"] ELSE [kind |-> "bytes"]]

\* every hostname, with each method, without headers
HostRequests ==
  {makeRequest(h, RootTail, m, {}) : h \in Hostnames, m \in Methods}

\* hostnames the requests that carry headers are sent to: a target, the
\* landing host and an undecodable host
HeaderHostnames ==
  {l \o GatewaySuffix : l \in {YtLabel, ProxyLabel, <<"a", "-">>}}

\* every set of header lines, with each method, on a few hosts
HeaderRequests ==
  {makeRequest(h, WatchTail, m, ls) :
     h \in HeaderHostnames, m \in Methods, ls \in HeaderLineSets}

\* scheme and port of the inbound URL
InboundOrigins ==
  { <<HttpsScheme, <<>>>>,
    <<HttpScheme, <<>>>>,
    <<HttpScheme, <<"8", "0", "8", "0">>>>,
    <<HttpsScheme, <<"8", "4", "4", "3">>>> }

\* first labels that decode to an address: loopback, private, and a short
\* form of the loopback address
AddressLabels ==
  { <<"1", "2", "7", "-", "-", "0", "-", "-", "0", "-", "-", "1">>,
    <<"1", "0", "-", "-", "0", "-", "-", "0", "-", "-", "1">>,
    <<"1", "2", "7", "-", "-", "1">> }

\* a first label that decodes to a.1, which the URL parser rejects as a host
UnparsableLabel ==
  <<"a", "-", "-", "1">>

\* requests to a target, to the addresses and to the host that does not
\* parse, over every scheme and port
OriginRequests ==
  {[makeRequest(l \o GatewaySuffix, WatchTail, m, {}) EXCEPT
      !.protocol = o[1], !.port = o[2]] :
     l \in {YtLabel, UnparsableLabel} \cup AddressLabels, m \in {GET, POST},
     o \in InboundOrigins}

ProxyRequests == HostRequests \cup HeaderRequests \cup OriginRequests

\* requests to the link-generation API of the landing host
GenerateRequests ==
  {[protocol |-> HttpsScheme, port |-> <<>>,
    hostname |-> ProxyLabel \o GatewaySuffix, pathname |-> ApiGeneratePath,
    search |-> <<>>, method |-> m, headers |-> EmptyHeaders, body |-> b] :
     m \in {POST}, b \in GenerateBodies}
  \cup
  {[protocol |-> HttpsScheme, port |-> <<>>,
    hostname |-> ProxyLabel \o GatewaySuffix, pathname |-> ApiGeneratePath,
    search |-> <<>>, method |-> GET, headers |-> EmptyHeaders,
    body |-> [kind |-> "none"]]}

Requests == ProxyRequests \cup GenerateRequests

\* URLs found in upstream documents and Location headers
DocumentUrls ==
  { <<"h", "t", "t", "p", "s", ":", "/", "/", "y", "t", ".", "c", "o", "m",
      "/", "n", "e", "x", "t">>,
    <<"h", "t", "t", "p", "s", ":", "/", "/", "f", "o", "n", "t", "s", ".",
      "g", "s", "t", "a", "t", "i", "c", ".", "c", "o", "m", "/", "x">> }

Locations ==
  { <<"h", "t", "t", "p", "s", ":", "/", "/", "x", ".", "y", "t", ".", "c",
      "o", "m", "/", "p">>,
    <<"/", "r", "e", "l">>,
    <<"h", "t", "t", "p", "s", ":", "/", "/", "l", "o", "c", "a", "l", "h",
      "o", "s", "t", "/">>,
    <<"h", "t", "t", "p", "s", ":", "/", "/", "a", "-", "-", "b", ".", "c",
      "o", "m", "/">>,
    <<"H", "T", "T", "P", ":", "/", "/", "X", ".", "y", "t", ".", "c", "o",
      "m", ":", "8", "1", "/", "p", "?", "q", "=", "1">>,
    <<"h", "t", "t", "p", "s", ":", "/", "/", "a", "-", ".", "y", "t", ".",
      "c", "o", "m", "/">> }

ContentTypes ==
  { HtmlUtf8ContentType,
    <<"i", "m", "a", "g", "e", "/", "p", "n", "g">> }

\* fingerprinting headers an upstream may send
ServerLines ==
  { <<<<"S", "e", "r", "v", "e", "r">>, <<"n", "g", "i", "n", "x">>>>,
    <<XFrameOptionsName, Deny>> }

\* CORS headers an upstream may send
UpstreamCorsLines ==
  { <<AllowOriginName,
      <<"h", "t", "t", "p", "s", ":", "/", "/", "o", ".", "t">>>>,
    <<MaxAgeName, <<"1">>>> }

Document(url) ==
  [kind |-> "text",
   segments |-> <<[kind |-> "raw", text |-> <<"h", "i">>],
                  [kind |-> "attr", text |-> url]>>]

\* responses of the upstream: fetch gives statuses 200 to 599
UpstreamResponses ==
  {[status |-> s, headers |-> headersOf(cts \cup extra), body |-> Document(u)] :
     s \in {200, 404},
     cts \in {{}} \cup {{<<ContentTypeName, ct>>} : ct \in ContentTypes},
     extra \in {{}, ServerLines \cup UpstreamCorsLines},
     u \in DocumentUrls}
  \cup
  {[status |-> s, headers |-> headersOf(loc \cup extra), body |-> NullBody] :
     s \in {301, 302},
     loc \in {{}} \cup {{<<LocationName, l>>} : l \in Locations},
     extra \in {{}, ServerLines \cup UpstreamCorsLines}}

\* failures of fetch other than the timeout
UpstreamFailures ==
  { [name |-> "TypeError", message |-> "Network connection lost"],
    [name |-> "Error", message |-> "internal error"] }

\* the failure the signal of AbortSignal.timeout(REQUEST_TIMEOUT) raises
TimeoutFailure ==
  [name |-> "TimeoutError",
   message |-> "The operation was aborted due to timeout"]

(***************************************************************************)
(* The state machine: one request at a time is followed from its arrival   *)
(* to the delivery of its response.                                        *)
(***************************************************************************)
VARIABLES
  pc,        \* "idle", "fetching" or "responded"
  request,   \* the inbound request being handled
  target,    \* the target URL of the request, once built
  fetches,   \* the upstream requests issued for the request, in order
  upstream,  \* the outcome of the fetch
  response,  \* the response of handleRequest
  codec      \* the codec or the rewriter applied to an input, stage by stage

vars == <<pc, request, target, fetches, upstream, response, codec>>

None == [kind |-> "none"]

CodecOff == [stage |-> "off"]

Init ==
  /\ pc = "idle"
  /\ request = None
  /\ target = None
  /\ fetches = <<>>
  /\ upstream = None
  /\ response = None
  /\ codec = CodecOff

\* a request arrives and handleRequest runs to its response or to the fetch
Receive(r) ==
  /\ pc = "idle"
  /\ request' = r
  /\ upstream' = None
  /\ LET step == handleRequestStart(r) IN
       IF step.kind = "response"
         THEN /\ pc' = "responded"
              /\ response' = step.response
              /\ UNCHANGED <<target, fetches>>
         ELSE /\ pc' = "fetching"
              /\ target' = step.targetUrl
              /\ fetches' = Append(fetches, step.options)
              /\ UNCHANGED response
  /\ UNCHANGED codec

\* the request fetch issues next when it follows a redirect by itself
followUp(options, resp) ==
  [options EXCEPT !.url = hGet(resp.headers, LocationName)]

\* fetch follows a 3xx response itself unless redirect is "manual"
fetchFollows(options, resp) ==
  /\ options.redirect = "follow"
  /\ resp.status >= 300 /\ resp.status < 400
  /\ hHas(resp.headers, LocationName)
  /\ Len(fetches) < 20

\* the upstream answers and handleRequest runs to its response
UpstreamResponds(u) ==
  /\ pc = "fetching"
  /\ IF fetchFollows(fetches[Len(fetches)], u)
       THEN /\ fetches' = Append(fetches, followUp(fetches[Len(fetches)], u))
            /\ UNCHANGED <<pc, upstream, response>>
       ELSE /\ upstream' = [kind |-> "response", response |-> u]
            /\ response' = handleRequestResume(upstream', request)
            /\ pc' = "responded"
            /\ UNCHANGED fetches
  /\ UNCHANGED <<request, target, codec>>

\* the timeout signal aborts the fetch
UpstreamTimesOut ==
  /\ pc = "fetching"
  /\ upstream' = [kind |-> "error", error |-> TimeoutFailure]
  /\ response' = handleRequestResume(upstream', request)
  /\ pc' = "responded"
  /\ UNCHANGED <<request, target, fetches, codec>>

\* the fetch fails for another reason
UpstreamFails(e) ==
  /\ pc = "fetching"
  /\ upstream' = [kind |-> "error", error |-> e]
  /\ response' = handleRequestResume(upstream', request)
  /\ pc' = "responded"
  /\ UNCHANGED <<request, target, fetches, codec>>

\* the response goes to the client; nothing of the request is kept
Deliver ==
  /\ pc = "responded"
  /\ pc' = "idle"
  /\ request' = None
  /\ target' = None
  /\ fetches' = <<>>
  /\ upstream' = None
  /\ response' = None
  /\ UNCHANGED codec

Next ==
  \/ \E r \in Requests : Receive(r)
  \/ \E u \in UpstreamResponses : UpstreamResponds(u)
  \/ UpstreamTimesOut
  \/ \E e \in UpstreamFailures : UpstreamFails(e)
  \/ Deliver

Spec == Init /\ [][Next]_vars

(***************************************************************************)
(* The codec on its own: a domain name is encoded by convertUrlToSubdomain *)
(* and the result, as the first label of a gateway hostname, is decoded    *)
(* the way the dispatcher decodes it.                                      *)
(***************************************************************************)
\* characters of the domain names that are enumerated: a lower-case and an
\* upper-case letter, the hyphen and the dot
DomainChars == {"a", "B", "-", "."}

Domains == StringsUpTo(DomainChars, MaxDomainLen)

\* the dispatcher's decoding of the first label of a hostname: the validation
\* of handleRequest followed by the conversion of buildTargetUrl
decodeHostname(hostname) ==
  LET subdomain == extractSubdomain(hostname) IN
    IF subdomain = NULL THEN NULL ELSE convertSubdomainToUrl(subdomain)

InitCodec ==
  /\ pc = "idle"
  /\ request = None
  /\ target = None
  /\ fetches = <<>>
  /\ upstream = None
  /\ response = None
  /\ codec \in {[stage |-> "input", d |-> d, e |-> NULL, r |-> NULL] :
                  d \in Domains}

CodecEncode ==
  /\ codec.stage = "input"
  /\ codec' = [codec EXCEPT !.stage = "encoded",
                            !.e = convertUrlToSubdomain(codec.d)]
  /\ UNCHANGED <<pc, request, target, fetches, upstream, response>>

CodecDecode ==
  /\ codec.stage = "encoded"
  /\ codec' = [codec EXCEPT
                 !.stage = "decoded",
                 !.r = IF codec.e = NULL THEN NULL
                       ELSE decodeHostname(codec.e \o GatewaySuffix)]
  /\ UNCHANGED <<pc, request, target, fetches, upstream, response>>

NextCodec == CodecEncode \/ CodecDecode

SpecCodec == InitCodec /\ [][NextCodec]_vars

(***************************************************************************)
(* Properties.                                                             *)
(***************************************************************************)
\* the first label of the hostname of the request being handled
firstLabel == split(request.hostname, Dot)[1]

\* the labels the dispatcher serves the landing page on
LandingLabels == {ProxyLabel, ProxyDashLabel}

\* the upstream answered the request being handled with a response
upstreamAnswered == pc = "responded" /\ upstream.kind = "response"

\* the upstream request of the request being handled
outbound == fetches[1]

\* a first label that fails decoding, in the words of the data model: fewer
\* than two parts between double hyphens, an empty part, a part that starts
\* or ends with a hyphen, or a character outside [A-Za-z0-9-]
failsDecoding(label) ==
  LET parts == split(label, DoubleHyphen) IN
    \/ Len(parts) < 2
    \/ \E i \in 1..Len(parts) :
         \/ parts[i] = <<>>
         \/ parts[i][1] = "-"
         \/ parts[i][Len(parts[i])] = "-"
    \/ \E i \in 1..Len(label) : label[i] \notin AlnumHyphen

\* the request being handled is on the proxying surface: a hostname under a
\* base domain whose first label is an encoded target
onProxyingSurface ==
  /\ pc # "idle"
  /\ Len(split(request.hostname, Dot)) >= 2
  /\ firstLabel \notin LandingLabels
  /\ ~failsDecoding(firstLabel)

\* the domain name a first label stands for: its double hyphens read as dots
decodedLabel(label) == join(split(label, DoubleHyphen), Dot)

\* C1: on the proxying path a non-3xx upstream response of a rewritable
\* content type is returned with the content rewriter's output as its body
C1_RewrittenBodyReturned ==
  (/\ upstreamAnswered
   /\ ~(upstream.response.status >= 300 /\ upstream.response.status < 400)
   /\ hHas(upstream.response.headers, ContentTypeName)
   /\ shouldRewriteContent(hGet(upstream.response.headers, ContentTypeName)))
  => /\ response.body.kind = "text"
     /\ response.body.segments =
          rewriteContent(upstream.response.body.segments,
                         hGet(upstream.response.headers, ContentTypeName),
                         target, request)

\* a domain name of at least two labels, each of [A-Za-z0-9-]+ and neither
\* starting nor ending with a hyphen
validDomainName(d) ==
  LET labels == split(d, Dot) IN
    /\ Len(labels) >= 2
    /\ \A i \in 1..Len(labels) :
         /\ labels[i] # <<>>
         /\ \A k \in 1..Len(labels[i]) : labels[i][k] \in AlnumHyphen
         /\ labels[i][1] # "-"
         /\ labels[i][Len(labels[i])] # "-"

\* C2 as stated: every valid domain name of at least two labels is decoded
\* back from its encoding
C2_RoundTripEveryDomain ==
  (codec.stage = "decoded" /\ validDomainName(codec.d)) => codec.r = codec.d

\* C2: a valid domain name of at least two labels in which no two hyphens
\* follow each other is decoded back from its encoding
C2_RoundTrip ==
  (/\ codec.stage = "decoded"
   /\ validDomainName(codec.d)
   /\ ~includes(codec.d, DoubleHyphen))
  => codec.r = codec.d

\* a domain name with a hyphen inside a label and an upper-case letter has
\* made the round trip
C2_Witness ==
  /\ codec.stage = "decoded"
  /\ codec.d = <<"a", "-", "B", ".", "a">>
  /\ codec.e = <<"a", "-", "B", "-", "-", "a">>
  /\ codec.r = codec.d

\* C3: a request whose first label is not a landing label and fails decoding
\* is answered 400 and no upstream request is issued for it
C3_UndecodableRejected ==
  (/\ pc # "idle"
   /\ firstLabel \notin LandingLabels
   /\ failsDecoding(firstLabel))
  => /\ pc = "responded"
     /\ response.status = 400
     /\ fetches = <<>>

\* a first label of two parts, one of which starts with a hyphen, was
\* answered 400
C3_Witness ==
  /\ pc = "responded"
  /\ firstLabel = <<"a", "-", "-", "-", "a">>
  /\ response.status = 400
  /\ fetches = <<>>

\* C4 as stated: every OPTIONS request, whatever its hostname and path, is
\* answered 204 with Access-Control-Allow-Origin: * and no upstream request
C4_EveryOptionsAnswered204 ==
  (pc # "idle" /\ request.method = OPTIONS)
  => /\ pc = "responded"
     /\ response.status = 204
     /\ hGet(response.headers, AllowOriginName) = Star
     /\ fetches = <<>>

\* C4: no OPTIONS request causes an upstream request, and an OPTIONS request
\* on the proxying surface is answered 204 with Access-Control-Allow-Origin: *
C4_OptionsAnsweredLocally ==
  (pc # "idle" /\ request.method = OPTIONS)
  => /\ pc = "responded"
     /\ fetches = <<>>
     /\ onProxyingSurface =>
          /\ response.status = 204
          /\ hGet(response.headers, AllowOriginName) = Star

\* an OPTIONS request on the proxying surface got its 204
C4_Witness ==
  /\ pc = "responded"
  /\ request.method = OPTIONS
  /\ onProxyingSurface
  /\ request.pathname = <<"/", "w">>
  /\ response.status = 204
  /\ response.body = NullBody

\* the methods the gateway accepts, as the interface lists them
ListedMethods == {GET, POST, PUT, DELETE, PATCH, HEAD, OPTIONS}

\* C5: a request on the proxying surface with a method outside the list is
\* answered 405 and no upstream request is issued for it
C5_UnlistedMethodRejected ==
  (onProxyingSurface /\ request.method \notin ListedMethods)
  => /\ pc = "responded"
     /\ response.status = 405
     /\ fetches = <<>>

\* a TRACE request for a decodable host was answered 405
C5_Witness ==
  /\ onProxyingSurface
  /\ request.method = TRACE
  /\ response.status = 405
  /\ response.body.kind = "json"

\* C6: when the fetch fails with a TimeoutError the response is the 504
\* error envelope
C6_TimeoutGives504 ==
  (/\ pc = "responded"
   /\ upstream.kind = "error"
   /\ upstream.error.name = "TimeoutError")
  => /\ response.status = 504
     /\ response.body.kind = "json"
     /\ response.body.status = 504
     /\ response.body.error = "Request timeout"

\* a fetch has timed out and the request was answered 504
C6_Witness ==
  /\ pc = "responded"
  /\ upstream.kind = "error"
  /\ upstream.error = TimeoutFailure
  /\ Len(fetches) = 1
  /\ response.status = 504

\* C7: when the fetch fails otherwise the response is a 500 error envelope
\* with the message of the failure, and the fetch is not issued again
C7_FailureGives500 ==
  (/\ pc = "responded"
   /\ upstream.kind = "error"
   /\ upstream.error.name # "TimeoutError")
  => /\ response.status = 500
     /\ response.body.kind = "json"
     /\ response.body.status = 500
     /\ response.body.error = upstream.error.message
     /\ Len(fetches) = 1

\* a fetch has failed with a network error and the request was answered 500
C7_Witness ==
  /\ pc = "responded"
  /\ upstream.kind = "error"
  /\ upstream.error.name = "TypeError"
  /\ response.status = 500
  /\ response.body.error = "Network connection lost"

\* C8: at most one upstream request is issued for a request, and a 3xx
\* upstream response is returned to the client with its status
C8_AtMostOneFetch ==
  /\ Len(fetches) <= 1
  /\ (/\ upstreamAnswered
      /\ upstream.response.status >= 300
      /\ upstream.response.status < 400)
     => /\ response.status = upstream.response.status
        /\ Len(fetches) = 1

\* a 301 with a Location was returned to the client after a single fetch
C8_Witness ==
  /\ upstreamAnswered
  /\ upstream.response.status = 301
  /\ hHas(upstream.response.headers, LocationName)
  /\ response.status = 301
  /\ Len(fetches) = 1

\* C9: the headers of the upstream request hold no header whose lower-cased
\* name is on the deny-list
C9_NoBlockedHeaderOutbound ==
  fetches # <<>>
  => \A n \in DOMAIN outbound.headers : toLowerCase(n) \notin BLOCKED_HEADERS

\* a request that came with a VIA header in upper case was sent upstream
\* without it, its other header kept
C9_Witness ==
  /\ pc = "fetching"
  /\ hGet(request.headers, <<"V", "I", "A">>) = <<"1", ".", "2", ".", "3", ".", "4">>
  /\ hHas(request.headers, <<"C", "o", "o", "k", "i", "e">>)
  /\ ~hHas(outbound.headers, <<"v", "i", "a">>)
  /\ hHas(outbound.headers, <<"c", "o", "o", "k", "i", "e">>)

\* C10: the Host of the upstream request is the target hostname, and its
\* Origin is the target origin exactly when the inbound request had an Origin
C10_HostAndOriginForced ==
  fetches # <<>>
  => /\ hGet(outbound.headers, HostName) = target.hostname
     /\ hHas(request.headers, OriginName)
          => hGet(outbound.headers, OriginName)
               = HttpsScheme \o SlashSlash \o target.hostname
     /\ ~hHas(request.headers, OriginName)
          => ~hHas(outbound.headers, OriginName)

\* a request that came with its own Host and an Origin was sent to yt.com
\* with both replaced
C10_Witness ==
  /\ pc = "fetching"
  /\ hGet(request.headers, HostName) = <<"c", ".", "d">>
  /\ hHas(request.headers, OriginName)
  /\ hGet(outbound.headers, HostName) = <<"y", "t", ".", "c", "o", "m">>
  /\ hGet(outbound.headers, OriginName)
       = <<"h", "t", "t", "p", "s", ":", "/", "/", "y", "t", ".", "c", "o", "m">>

\* the upstream answered the request being handled with a 3xx response
redirected ==
  /\ upstreamAnswered
  /\ upstream.response.status >= 300
  /\ upstream.response.status < 400

\* the Location of the upstream response, NULL when it has none
upstreamLocation == hGet(upstream.response.headers, LocationName)

\* the encoding of a domain name: its dots written as double hyphens
encoded(d) == join(split(d, Dot), DoubleHyphen)

\* a hostname without its first label and the dot that follows it
baseOf(hostname) == dropTo(hostname, firstIndexIn(hostname, {"."}) + 1)

\* C11: a 3xx upstream response whose Location is an absolute URL with a
\* standard-domain host h is returned with its status and a Location whose
\* host is encode(h) + "." + base, base being the inbound hostname without its
\* first label, and whose path and query are those of the upstream Location
C11_RedirectRewritten ==
  (/\ redirected
   /\ upstreamLocation # NULL
   /\ parseURL(upstreamLocation).ok
   /\ isStandardDomain(parseURL(upstreamLocation).hostname))
  => LET loc == parseURL(upstreamLocation)
         out == parseURL(hGet(response.headers, LocationName))
     IN /\ response.status = upstream.response.status
        /\ out.ok
        /\ out.hostname = encoded(loc.hostname) \o Dot
                            \o baseOf(request.hostname)
        /\ out.pathname = loc.pathname
        /\ out.search = loc.search

\* a 301 whose Location has an upper-case host, a port and a query is returned
\* with the host x--yt--com.gw.tld
C11_Witness ==
  /\ redirected
  /\ upstream.response.status = 301
  /\ upstreamLocation # NULL
  /\ parseURL(upstreamLocation).ok
  /\ parseURL(upstreamLocation).search # <<>>
  /\ isStandardDomain(parseURL(upstreamLocation).hostname)
  /\ parseURL(hGet(response.headers, LocationName)).hostname =
       <<"x", "-", "-", "y", "t", "-", "-", "c", "o", "m">> \o GatewaySuffix

\* C12: a response built from an upstream response, on the redirect path as
\* on the non-redirect path, has none of the headers of headersToRemove
C12_NoFingerprintHeaders ==
  upstreamAnswered => DOMAIN response.headers \cap headersToRemove = {}

\* C13: a 3xx upstream response whose Location is absent, does not parse as
\* an absolute URL, or has a host without a dot or with a double hyphen is
\* returned with the upstream status, the upstream Location and the upstream
\* body, never as an error response
C13_RedirectFailsOpen ==
  (/\ redirected
   /\ \/ upstreamLocation = NULL
      \/ ~parseURL(upstreamLocation).ok
      \/ ~includes(parseURL(upstreamLocation).hostname, Dot)
      \/ includes(parseURL(upstreamLocation).hostname, DoubleHyphen))
  => /\ response.status = upstream.response.status
     /\ hGet(response.headers, LocationName) = upstreamLocation
     /\ response.body = upstream.response.body
     /\ response.body.kind # "json"

\* a 302 whose Location has a host with a double hyphen is returned as it was
C13_Witness ==
  /\ redirected
  /\ upstream.response.status = 302
  /\ upstreamLocation # NULL
  /\ parseURL(upstreamLocation).ok
  /\ includes(parseURL(upstreamLocation).hostname, DoubleHyphen)
  /\ hGet(response.headers, LocationName) = upstreamLocation

\* the request being handled is a POST to the link-generation API of the
\* landing host that submits a url
generating ==
  /\ pc = "responded"
  /\ firstLabel = ProxyLabel
  /\ request.pathname = ApiGeneratePath
  /\ request.method = POST
  /\ request.body.kind = "json"
  /\ request.body.hasUrl

\* the url the request being handled submits
submitted == request.body.url

\* a bare domain name: a valid domain name whose last label is not a number
bareDomainName(d) ==
  /\ validDomainName(d)
  /\ LET labels == split(d, Dot)
         last == labels[Len(labels)]
     IN \E k \in 1..Len(last) : last[k] \notin Digits

\* C14 as the spec states it: a bare public domain name d gets a success
\* response whose proxyUrl is exactly "https://" + encode(d) + "." + base
C14_GeneratedLinkExact ==
  (generating /\ bareDomainName(submitted))
  => /\ response.status = 200
     /\ response.body.kind = "generated"
     /\ response.body.proxyUrl =
          HttpsScheme \o SlashSlash \o encoded(submitted) \o Dot
            \o baseOf(request.hostname)

\* C14: a bare public domain name d submitted to the landing host
\* proxy.<base> gets the response {success: true, originalUrl, proxyUrl} with
\* originalUrl "https://" + d and proxyUrl "https://" + encode(d in lower
\* case) + "." + base + "/"
C14_GeneratedLink ==
  (generating /\ bareDomainName(submitted))
  => /\ response.status = 200
     /\ response.body.kind = "generated"
     /\ response.body.success
     /\ response.body.originalUrl = HttpsScheme \o SlashSlash \o submitted
     /\ response.body.proxyUrl =
          HttpsScheme \o SlashSlash \o encoded(toLowerCase(submitted)) \o Dot
            \o baseOf(request.hostname) \o Slash

\* github.com submitted to proxy.gw.tld gives https://github--com.gw.tld/
C14_Witness ==
  /\ generating
  /\ submitted = GithubCom
  /\ request.hostname = ProxyLabel \o GatewaySuffix
  /\ response.status = 200
  /\ response.body.proxyUrl =
       <<"h", "t", "t", "p", "s", ":", "/", "/", "g", "i", "t", "h", "u", "b",
         "-", "-", "c", "o", "m", ".", "g", "w", ".", "t", "l", "d", "/">>

\* the URL the link-generation API makes of the submitted url
submittedUrl == parseURL(normalizeUrl(submitted))

\* the address a URL hostname writes: an IPv6 address without its brackets
hostAddress(hostname) ==
  IF hostname[1] = "[" THEN SubSeq(hostname, 2, Len(hostname) - 1) ELSE hostname

\* the octets of a dotted IPv4 literal, <<>> for another hostname
octetsOf(hostname) ==
  LET parts == split(hostname, Dot) IN
    IF /\ Len(parts) = 4
       /\ \A i \in 1..4 :
            /\ parts[i] # <<>>
            /\ \A k \in 1..Len(parts[i]) : parts[i][k] \in Digits
      THEN [i \in 1..4 |-> numberIn(parts[i], 10)]
      ELSE <<>>

\* a host the spec calls private: an IPv4 literal of 10.0.0.0/8,
\* 172.16.0.0/12, 192.168.0.0/16, 127.0.0.0/8 or 169.254.0.0/16, or one of
\* localhost, 127.0.0.1 and ::1
privateHost(hostname) ==
  LET o == octetsOf(hostname) IN
    \/ hostAddress(hostname) \in
         {Localhost, <<"1", "2", "7", ".", "0", ".", "0", ".", "1">>,
          <<":", ":", "1">>}
    \/ /\ o # <<>>
       /\ \/ o[1] = 10
          \/ (o[1] = 172 /\ o[2] \in 16..31)
          \/ (o[1] = 192 /\ o[2] = 168)
          \/ o[1] = 127
          \/ (o[1] = 169 /\ o[2] = 254)

\* C15: isPublicUrl is false for every private host and true for every other
\* IPv4 literal and domain name, and on the link-generation path a private
\* host gets a 403 and never a success response
C15_PrivateHostsRejected ==
  (generating /\ submitted # <<>> /\ submittedUrl.ok)
  => /\ isPublicUrl(submittedUrl) = ~privateHost(submittedUrl.hostname)
     /\ privateHost(submittedUrl.hostname)
          => response.status = 403 /\ response.body.kind = "json"

\* C16: a submitted url whose scheme is neither http nor https is rejected
\* with a 400 error and never gets a success response
C16_NonHttpSchemeRejected ==
  (/\ generating
   /\ hasScheme(trim(submitted))
   /\ LET t == trim(submitted)
          c == firstIndexIn(t, {":"})
      IN /\ startsWith(dropTo(t, c + 1), SlashSlash)
         /\ toLowerCase(SubSeq(t, 1, c)) \notin {HttpScheme, HttpsScheme})
  => response.status = 400 /\ response.body.kind = "json"

\* the messages of the errors of the link-generation API
GenerateErrors ==
  {"Method not allowed", "Invalid request body", "URL is required",
   "Invalid URL format", "Only HTTP and HTTPS URLs are supported",
   "Private network URLs are not allowed"}

\* C17: a request whose first label is the landing label proxy is never
\* decoded and causes no upstream request, whatever its method and path: it
\* gets the landing page with status 200 or, on /api/generate, the answer of
\* the link-generation API
C17_LandingIntercepted ==
  (pc # "idle" /\ firstLabel = ProxyLabel)
  => /\ pc = "responded"
     /\ fetches = <<>>
     /\ target = None
     /\ upstream = None
     /\ IF request.pathname = ApiGeneratePath
          THEN \/ response.status = 200 /\ response.body.kind = "generated"
               \/ /\ response.body.kind = "json"
                  /\ response.body.error \in GenerateErrors
          ELSE /\ response.status = 200
               /\ response.body.kind = "page"

\* a TRACE request for /w on proxy.gw.tld gets the landing page
C17_Witness ==
  /\ pc = "responded"
  /\ firstLabel = ProxyLabel
  /\ request.method = TRACE
  /\ request.pathname = <<"/", "w">>
  /\ response.status = 200
  /\ response.body.kind = "page"
  /\ fetches = <<>>

\* the response of the request being handled is an error the gateway made
\* itself: a 4xx or 5xx that is not the response of the upstream
gatewayError ==
  /\ pc = "responded"
  /\ response.status >= 400
  /\ upstream.kind # "response"

\* the five CORS headers are there and the allowed origin is the wildcard
carriesCors(headers) ==
  /\ hGet(headers, AllowOriginName) = Star
  /\ hHas(headers, AllowMethodsName)
  /\ hHas(headers, AllowHeadersName)
  /\ hHas(headers, MaxAgeName)
  /\ hHas(headers, ExposeHeadersName)

\* C18: every error response the gateway generates, on the proxying and on
\* the link-generation path, has one of the statuses 400, 403, 405, 500 and
\* 504, the content type application/json, the CORS headers and a JSON body
\* of exactly the fields error, status and timestamp whose status is the
\* status of the response
C18_ErrorEnvelope ==
  gatewayError
  => /\ response.status \in {400, 403, 405, 500, 504}
     /\ hHas(response.headers, ContentTypeName)
     /\ startsWith(hGet(response.headers, ContentTypeName),
                   <<"a", "p", "p", "l", "i", "c", "a", "t", "i", "o", "n",
                     "/", "j", "s", "o", "n">>)
     /\ carriesCors(response.headers)
     /\ response.body.kind = "json"
     /\ DOMAIN response.body = {"kind", "error", "status", "timestamp"}
     /\ response.body.status = response.status

\* the link-generation API refuses a private address with a 403 envelope
C18_Witness ==
  /\ gatewayError
  /\ generating
  /\ response.status = 403
  /\ response.body.status = 403
  /\ carriesCors(response.headers)

\* C19: every response on the proxying surface (proxied response, redirect
\* with or without rewritten Location, answer to OPTIONS, error envelope)
\* carries Access-Control-Allow-Origin: * and the Allow-Methods,
\* Allow-Headers, Max-Age and Expose-Headers headers, and a response built
\* from an upstream response has the gateway's values for them, not the
\* upstream's
C19_CorsOnProxyingSurface ==
  (onProxyingSurface /\ pc = "responded")
  => /\ carriesCors(response.headers)
     /\ upstreamAnswered
          => /\ hGet(response.headers, AllowMethodsName) =
                  join(ALLOWED_METHODS, CommaSpace)
             /\ hGet(response.headers, AllowHeadersName) =
                  CorsAllowHeadersValue
             /\ hGet(response.headers, MaxAgeName) = CORS_MAX_AGE
             /\ hGet(response.headers, ExposeHeadersName) =
                  CorsExposeHeadersValue

\* a redirect whose upstream response names another allowed origin is
\* returned with a rewritten Location and the wildcard origin
C19_Witness ==
  /\ redirected
  /\ hHas(upstream.response.headers, AllowOriginName)
  /\ hGet(upstream.response.headers, AllowOriginName) # Star
  /\ hGet(response.headers, LocationName) # upstreamLocation
  /\ hGet(response.headers, AllowOriginName) = Star
  /\ hGet(response.headers, MaxAgeName) = CORS_MAX_AGE

(***************************************************************************)
(* Concurrent requests.  The runtime calls handleRequest once for every    *)
(* fetch event; an invocation runs until it awaits the upstream fetch, and *)
(* other invocations run while it waits.  The variables hold, for every    *)
(* invocation, what the one-request specification holds for its request.   *)
(* Apart from CONFIG, which no statement assigns to, the worker has no     *)
(* variable outside its functions.                                         *)
(***************************************************************************)
\* the invocations of handleRequest that are in progress together
Handlers == 1..MaxHandlers

\* a second gateway, so that requests differ in their base domain
OtherGatewaySuffix ==
  <<".", "b", ".", "c", "c">>

\* the requests that are handled concurrently
ConcurrentRequests ==
  {makeRequest(YtLabel \o s, WatchTail, m, {}) :
     s \in {GatewaySuffix, OtherGatewaySuffix}, m \in {GET}}
  \cup {makeRequest(YtLabel \o GatewaySuffix, RootTail, OPTIONS, {}),
        makeRequest(ProxyLabel \o GatewaySuffix, RootTail, GET, {})}

\* the upstream responses given to them: those of status 200 or 301 that
\* have no header but a Location
ConcurrentResponses ==
  {u \in UpstreamResponses :
     /\ u.status \in {200, 301}
     /\ DOMAIN u.headers \subseteq {toLowerCase(LocationName)}}

\* the originalRequest of an invocation that another invocation overwrites
originalRequestShared(i) ==
  IF \E j \in Handlers : j # i /\ pc[j] # "idle"
    THEN request[CHOOSE j \in Handlers : j # i /\ pc[j] # "idle"]
    ELSE request[i]

\* the originalRequest parameter of proxyRequest in invocation i, as the
\* statements after the await read it
originalRequest(i) == request[i]

InitConcurrent ==
  /\ pc = [i \in Handlers |-> "idle"]
  /\ request = [i \in Handlers |-> None]
  /\ target = [i \in Handlers |-> None]
  /\ fetches = [i \in Handlers |-> <<>>]
  /\ upstream = [i \in Handlers |-> None]
  /\ response = [i \in Handlers |-> None]
  /\ codec = CodecOff

\* invocation i starts and runs to its response or to the await of the fetch
HandlerReceive(i, r) ==
  /\ pc[i] = "idle"
  /\ request' = [request EXCEPT ![i] = r]
  /\ LET step == handleRequestStart(r) IN
       IF step.kind = "response"
         THEN /\ pc' = [pc EXCEPT ![i] = "responded"]
              /\ response' = [response EXCEPT ![i] = step.response]
              /\ UNCHANGED <<target, fetches>>
         ELSE /\ pc' = [pc EXCEPT ![i] = "fetching"]
              /\ target' = [target EXCEPT ![i] = step.targetUrl]
              /\ fetches' = [fetches EXCEPT ![i] = <<step.options>>]
              /\ UNCHANGED response
  /\ UNCHANGED <<upstream, codec>>

\* invocation i is resumed by the outcome of its fetch
HandlerResume(i, outcome) ==
  /\ pc[i] = "fetching"
  /\ upstream' = [upstream EXCEPT ![i] = outcome]
  /\ response' = [response EXCEPT
                    ![i] = handleRequestResume(outcome, originalRequest(i))]
  /\ pc' = [pc EXCEPT ![i] = "responded"]
  /\ UNCHANGED <<request, target, fetches, codec>>

HandlerUpstreamResponds(i, u) ==
  HandlerResume(i, [kind |-> "response", response |-> u])

HandlerUpstreamTimesOut(i) ==
  HandlerResume(i, [kind |-> "error", error |-> TimeoutFailure])

HandlerUpstreamFails(i, e) ==
  HandlerResume(i, [kind |-> "error", error |-> e])

\* the response of invocation i goes to its client
HandlerDeliver(i) ==
  /\ pc[i] = "responded"
  /\ pc' = [pc EXCEPT ![i] = "idle"]
  /\ request' = [request EXCEPT ![i] = None]
  /\ target' = [target EXCEPT ![i] = None]
  /\ fetches' = [fetches EXCEPT ![i] = <<>>]
  /\ upstream' = [upstream EXCEPT ![i] = None]
  /\ response' = [response EXCEPT ![i] = None]
  /\ UNCHANGED codec

NextConcurrent ==
  \E i \in Handlers :
    \/ \E r \in ConcurrentRequests : HandlerReceive(i, r)
    \/ \E u \in ConcurrentResponses : HandlerUpstreamResponds(i, u)
    \/ HandlerUpstreamTimesOut(i)
    \/ \E e \in UpstreamFailures : HandlerUpstreamFails(i, e)
    \/ HandlerDeliver(i)

SpecConcurrent == InitConcurrent /\ [][NextConcurrent]_vars

\* the response a request gets when it is handled alone and its fetch, if it
\* makes one, has the given outcome
handledAlone(r, outcome) ==
  LET step == handleRequestStart(r) IN
    IF step.kind = "response" THEN step.response
    ELSE handleRequestResume(outcome, r)

\* everything the worker holds for invocation i
activation(i) ==
  <<pc[i], request[i], target[i], fetches[i], upstream[i], response[i]>>

\* C20: under every interleaving of concurrently handled requests each
\* request gets the response it would get if it were handled alone with the
\* same upstream outcome, and a step of one invocation changes nothing of
\* another invocation
C20_HandledIndependently ==
  /\ [](\A i \in Handlers :
          pc[i] = "responded"
            => response[i] = handledAlone(request[i], upstream[i]))
  /\ [][\A i, j \in Handlers :
          (i # j /\ activation(i)' # activation(i))
            => activation(j)' = activation(j)]_vars

\* two requests under different base domains are in progress together and
\* each got its redirect rewritten for its own base domain
C20_Witness ==
  /\ \A i \in Handlers : pc[i] = "responded" /\ upstream[i].kind = "response"
  /\ baseOf(request[1].hostname) # baseOf(request[2].hostname)
  /\ \A i \in Handlers :
       /\ hHas(response[i].headers, LocationName)
       /\ parseURL(hGet(response[i].headers, LocationName)).ok
       /\ endsWith(parseURL(hGet(response[i].headers, LocationName)).hostname,
                   baseOf(request[i].hostname))

(***************************************************************************)
(* The rewriter on its own: a URL string, the target of the response it    *)
(* stands in and a document that holds it are drawn, then shouldProxyUrl,  *)
(* rewriteUrl and rewriteHtml are applied, stage by stage.                 *)
(***************************************************************************)
\* hosts of the targets whose responses are rewritten
TargetHosts ==
  { <<"y", "t", ".", "c", "o", "m">>,
    <<"g", "s", "t", "a", "t", "i", "c", ".", "c", "o", "m">>,
    <<"a", ".", "b">> }

\* hosts of third-party content delivery networks
CdnHosts ==
  { <<"f", "o", "n", "t", "s", ".", "g", "s", "t", "a", "t", "i", "c", ".",
      "c", "o", "m">>,
    <<"c", "d", "n", ".", "j", "s", "d", "e", "l", "i", "v", "r", ".", "n",
      "e", "t">>,
    <<"x", ".", "u", "n", "p", "k", "g", ".", "c", "o", "m">> }

\* characters a host is prefixed with: a letter, an upper-case letter and the
\* dot
PrefixChars == {"a", "B", "."}

\* hosts of the URLs that are enumerated: a target or CDN host behind every
\* prefix, so that subdomains (a.yt.com) and mere suffixes (ayt.com) occur
UrlHosts ==
  {prefix \o host : prefix \in StringsUpTo(PrefixChars, MaxPrefixLen),
                    host \in TargetHosts \cup CdnHosts}

\* URL strings besides the enumerated ones: relative and scheme-relative
\* references, the values rewriteUrl skips, a port, a third party and a string
\* that does not parse
OtherUrls ==
  { <<"/", "w", "?", "v", "=", "1">>,
    <<"/", "/", "m", ".", "y", "t", ".", "c", "o", "m", "/", "x">>,
    <<"w">>,
    <<"#", "t", "o", "p">>,
    <<>>,
    <<"d", "a", "t", "a", ":", "x">>,
    <<"b", "l", "o", "b", ":", "y">>,
    <<"h", "t", "t", "p", ":", "/", "/", "Y", "T", ".", "c", "o", "m", ":",
      "8", "1", "/", "p", "?", "q", "=", "1">>,
    <<"h", "t", "t", "p", "s", ":", "/", "/", "o", "t", "h", "e", "r", ".",
      "o", "r", "g", "/">>,
    <<"h", "t", "t", "p", ":", "/", "/", "[">> }

RewriterUrls ==
  {HttpsScheme \o SlashSlash \o host \o <<"/", "x">> : host \in UrlHosts}
  \cup OtherUrls

\* the targets, as buildTargetUrl gives them
RewriterTargets ==
  {parseURL(HttpsScheme \o SlashSlash \o host \o Slash) : host \in TargetHosts}

\* the base domain of the gateway
RewriterProxyDomain == Tail(GatewaySuffix)

\* documents that hold the URL: in an href, in a srcset of two candidates
\* separated by a comma, in the same srcset separated by a comma and a blank,
\* and as a string literal of an inline script
RewriterDocuments(url) ==
  << <<[kind |-> "raw", text |-> <<"h", "i">>],
       [kind |-> "attr", text |-> url]>>,
     <<[kind |-> "srcset",
        text |-> url \o <<" ", "1", "x", ",">> \o url \o <<" ", "2", "x">>]>>,
     <<[kind |-> "srcset",
        text |-> url \o <<" ", "1", "x", ",", " ">> \o url
                   \o <<" ", "2", "x">>]>>,
     <<[kind |-> "script",
        segments |-> <<[kind |-> "raw",
                        text |-> <<"v", "a", "r", " ", "u", "=">>],
                       [kind |-> "attr", text |-> url]>>]>> >>

InitRewriter ==
  /\ pc = "idle"
  /\ request = None
  /\ target = None
  /\ fetches = <<>>
  /\ upstream = None
  /\ response = None
  /\ \E k \in 1..4 :
       codec \in {[stage |-> "drawn", url |-> u, targetUrl |-> t,
                    html |-> RewriterDocuments(u)[k],
                    absoluteUrl |-> URLFailure, eligible |-> FALSE,
                    rewritten |-> <<>>, out |-> <<>>] :
                     u \in RewriterUrls, t \in RewriterTargets}

\* new URL(url, targetUrl.origin) and shouldProxyUrl on its result
RewriterDecide ==
  /\ codec.stage = "drawn"
  /\ LET absoluteUrl == parseURLWithBase(codec.url, codec.targetUrl) IN
       codec' = [codec EXCEPT
                   !.stage = "decided",
                   !.absoluteUrl = absoluteUrl,
                   !.eligible = IF absoluteUrl.ok
                                  THEN shouldProxyUrl(absoluteUrl,
                                                      codec.targetUrl)
                                  ELSE FALSE]
  /\ UNCHANGED <<pc, request, target, fetches, upstream, response>>

RewriterRewriteUrl ==
  /\ codec.stage = "decided"
  /\ codec' = [codec EXCEPT
                 !.stage = "rewritten",
                 !.rewritten = rewriteUrl(codec.url, codec.targetUrl,
                                          RewriterProxyDomain)]
  /\ UNCHANGED <<pc, request, target, fetches, upstream, response>>

RewriterRewriteHtml ==
  /\ codec.stage = "rewritten"
  /\ codec' = [codec EXCEPT
                 !.stage = "done",
                 !.out = rewriteHtml(codec.html, codec.targetUrl,
                                     RewriterProxyDomain)]
  /\ UNCHANGED <<pc, request, target, fetches, upstream, response>>

NextRewriter == RewriterDecide \/ RewriterRewriteUrl \/ RewriterRewriteHtml

SpecRewriter == InitRewriter /\ [][NextRewriter]_vars

(***************************************************************************)
(* Properties of the rewriter.                                             *)
(***************************************************************************)
\* host is the target host or a subdomain of it
sameOrSubdomain(host, targetHost) ==
  host = targetHost \/ endsWith(host, Dot \o targetHost)

\* the values rewriteUrl is to skip: empty, data:, blob: and fragment-only
skippedValue(url) ==
  \/ url = <<>>
  \/ startsWith(url, DataScheme)
  \/ startsWith(url, BlobScheme)
  \/ startsWith(url, Hash)

\* the drawn URL resolves against the target origin to the target host or to
\* a subdomain of it
resolvesToTarget ==
  /\ codec.absoluteUrl.ok
  /\ sameOrSubdomain(codec.absoluteUrl.hostname, codec.targetUrl.hostname)

\* C21: rewriteUrl on a URL string that resolves against the target origin
\* to the target host or to a subdomain of it returns a URL whose host is the
\* resolved host with every dot replaced by "--", followed by "." and the
\* base domain of the gateway, whose scheme is https and whose path and query
\* are those of the resolved URL.
C21_EligibleUrlEncoded ==
  (/\ codec.stage \in {"rewritten", "done"}
   /\ resolvesToTarget
   /\ ~skippedValue(codec.url))
  => LET r == parseURL(codec.rewritten) IN
       /\ r.ok
       /\ r.protocol = HttpsScheme
       /\ r.hostname = replaceDots(codec.absoluteUrl.hostname, DoubleHyphen)
                         \o Dot \o RewriterProxyDomain
       /\ r.pathname = codec.absoluteUrl.pathname
       /\ r.search = codec.absoluteUrl.search

\* the suffixes of the content delivery networks, in the words of the
\* description
CdnSuffixes ==
  { <<".", "c", "l", "o", "u", "d", "f", "l", "a", "r", "e", ".", "c", "o", "m">>,
    <<".", "g", "o", "o", "g", "l", "e", "a", "p", "i", "s", ".", "c", "o", "m">>,
    <<".", "g", "s", "t", "a", "t", "i", "c", ".", "c", "o", "m">>,
    <<".", "j", "s", "d", "e", "l", "i", "v", "r", ".", "n", "e", "t">>,
    <<".", "u", "n", "p", "k", "g", ".", "c", "o", "m">> }

onCdn(host) == \E suffix \in CdnSuffixes : endsWith(host, suffix)

\* the URL of the drawn document points at a CDN that the target is not
thirdPartyCdnDocument ==
  /\ codec.absoluteUrl.ok
  /\ hasScheme(codec.url)
  /\ onCdn(codec.absoluteUrl.hostname)
  /\ ~sameOrSubdomain(codec.absoluteUrl.hostname, codec.targetUrl.hostname)

\* the candidates of a srcset, trimmed and separated by a comma and a blank
blankAfterCommas(srcset) ==
  LET candidates == split(srcset, <<",">>) IN
    join([k \in 1..Len(candidates) |-> trim(candidates[k])], <<",", " ">>)

C28_CdnNeverEligible ==
  (/\ codec.stage \in {"decided", "rewritten", "done"}
   /\ codec.absoluteUrl.ok
   /\ onCdn(codec.absoluteUrl.hostname))
  => ~codec.eligible

\* C28 (amended): the target host alone decides eligibility: a URL is eligible
\* exactly when its host is the target host or a subdomain of it, whether or
\* not the host ends with a CDN suffix; a CDN host is not eligible unless it
\* is the target host or a subdomain of it.
C28_EligibleByTargetOnly ==
  (codec.stage \in {"decided", "rewritten", "done"} /\ codec.absoluteUrl.ok)
  => codec.eligible = sameOrSubdomain(codec.absoluteUrl.hostname,
                                       codec.targetUrl.hostname)

\* fonts.gstatic.com was found eligible for the target gstatic.com
C28_Witness ==
  /\ codec.stage = "decided"
  /\ codec.absoluteUrl.ok
  /\ codec.targetUrl.hostname \in TargetHosts
  /\ onCdn(codec.absoluteUrl.hostname)
  /\ codec.absoluteUrl.hostname # codec.targetUrl.hostname
  /\ codec.eligible

(***************************************************************************)
(* Properties of the target URL and of the order of the dispatcher.        *)
(***************************************************************************)
\* the target of the request being handled was built
targetBuilt == pc # "idle" /\ target # None

settledBy ==
  IF firstLabel \in LandingLabels THEN "landing"
  ELSE IF Len(split(request.hostname, Dot)) < 2 \/ failsDecoding(firstLabel)
    THEN "decoding"
  ELSE IF request.method \notin ListedMethods THEN "method"
  ELSE IF request.method = OPTIONS THEN "options"
  ELSE "dispatch"

inboundReferer == parseURL(hGet(request.headers, RefererName))

\* the Referer of the upstream request, parsed
outboundReferer == parseURL(hGet(outbound.headers, RefererName))

C27_PrivateTargetsNotExcluded ==
  /\ (/\ onProxyingSurface
      /\ parseHost(decodedLabel(firstLabel)) # <<>>
      /\ privateHost(parseHost(decodedLabel(firstLabel)))
      /\ request.method \in ListedMethods \ {OPTIONS})
     => /\ Len(fetches) = 1
        /\ target.hostname = parseHost(decodedLabel(firstLabel))
        /\ outbound.url = HttpsScheme \o SlashSlash
                            \o parseHost(decodedLabel(firstLabel))
                            \o request.pathname \o request.search
        /\ pc = "responded" => response.status # 403
  /\ (/\ redirected
      /\ upstreamLocation # NULL
      /\ parseURL(upstreamLocation).ok
      /\ privateHost(parseURL(upstreamLocation).hostname))
     => /\ response.status = upstream.response.status
        /\ hHas(response.headers, LocationName)
        /\ response.body = upstream.response.body

\* a POST for 10--0--0--1.gw.tld has its upstream request to 10.0.0.1 issued
C27_Witness ==
  /\ pc = "fetching"
  /\ request.method = POST
  /\ firstLabel = <<"1", "0", "-", "-", "0", "-", "-", "0", "-", "-", "1">>
  /\ outbound.url = <<"h", "t", "t", "p", "s", ":", "/", "/", "1", "0", ".",
                      "0", ".", "0", ".", "1", "/", "w", "?", "v", "=", "1">>

\* C29: every link the link-generation API returns with success: true is
\* usable: the host of its proxyUrl passes the host validation of the
\* dispatcher and decodes to exactly the hostname of the submitted url as
\* normalizeUrl and the URL parser give it, whatever url was submitted.
C29_GeneratedLinkUsable ==
  (/\ generating
   /\ response.status = 200
   /\ response.body.kind = "generated")
  => LET link == parseURL(response.body.proxyUrl) IN
       /\ link.ok
       /\ extractSubdomain(link.hostname) # NULL
       /\ decodeHostname(link.hostname) = submittedUrl.hostname

(***************************************************************************)
(* The behaviours in which a fetch that was issued settles (it resolves,   *)
(* rejects or is aborted by the signal of AbortSignal.timeout) and in      *)
(* which the runtime sends the response that respondWith was given.        *)
(***************************************************************************)
FetchSettles ==
  \/ \E u \in UpstreamResponses : UpstreamResponds(u)
  \/ UpstreamTimesOut
  \/ \E e \in UpstreamFailures : UpstreamFails(e)

\* requests that take every path through the worker: to a target, to the
\* addresses and to the host that does not parse over every scheme and port,
\* with every method to a target, to the landing host and to an undecodable
\* host, and to the link-generation API with and without a url
LiveRequests ==
  OriginRequests
  \cup {makeRequest(h, RootTail, m, {}) : h \in HeaderHostnames, m \in Methods}
  \cup {g \in GenerateRequests :
          \/ g.body.kind # "json"
          \/ ~g.body.hasUrl
          \/ g.body.url \in Ipv4Literals \cup {GithubCom, Localhost, FtpUrl}}

NextLive ==
  \/ \E r \in LiveRequests : Receive(r)
  \/ FetchSettles
  \/ Deliver

SpecFair ==
  Init /\ [][NextLive]_vars /\ WF_vars(FetchSettles) /\ WF_vars(Deliver)

\* a Response: a status and headers
isResponse(r) ==
  /\ DOMAIN r = {"status", "headers", "body"}
  /\ r.status \in 200..599

\* the response of the request being handled is a Response, and the error
\* envelope with status 500 or 504 when something was thrown on the proxying
\* path: by fetch, or by the URL parser for the target
answeredProperly ==
  pc = "responded"
  => /\ isResponse(response)
     /\ upstream.kind = "error"
          => /\ response.status \in {500, 504}
             /\ response.body.kind = "json"
             /\ response.body.status = response.status
     /\ (settledBy = "dispatch" /\ fetches = <<>>)
          => /\ response.status = 500
             /\ response.body.kind = "json"

\* C30: every request gets exactly one response: handleRequest returns a
\* Response on every path, a request whose fetch was issued is answered once
\* the fetch settles, what was thrown on the proxying path is answered with
\* the 500 or 504 error envelope, and the response, once made, is the one
\* that is sent.
C30_EveryRequestAnswered ==
  /\ []answeredProperly
  /\ [][pc = "responded" => pc' = "idle"]_vars
  /\ (pc = "fetching") ~> (pc = "responded")
  /\ (pc = "responded") ~> (pc = "idle")

\* a fetch was rejected with an error that is no timeout and the request was
\* answered with the 500 envelope
C30_Witness ==
  /\ pc = "responded"
  /\ Len(fetches) = 1
  /\ upstream.kind = "error"
  /\ upstream.error.name = "TypeError"
  /\ isResponse(response)
  /\ response.status = 500
  /\ response.body.kind = "json"

====
